---- MODULE Spec2Model ----
(***************************************************************************)
(* The task dependency graph of auto-prdgen (src/prd_creator.py): the      *)
(* persisted task document tasks.json and the commands that read and       *)
(* change it: task-deps (add / remove / validate), task-next, task-update, *)
(* task-expand, task-init and task-research.  Every command loads the      *)
(* document, works on it in memory and, when it changes something, writes  *)
(* it back before it returns.                                              *)
(***************************************************************************)
EXTENDS Integers, Sequences, FiniteSets, TLC

VARIABLES
    tasks,        \* the "tasks" list of tasks.json, in list order, as loaded
    command,      \* the last command run, with its arguments
    outcome,      \* what the last command reported (the message it printed)
    issues,       \* the issue list of the last task-deps --validate
    available,    \* find_next_available_task's result in the last task-next
    recommended,  \* the id of the task the last task-next displayed
    written,      \* whether the last command wrote tasks.json
    disk,         \* the text of tasks.json: its task objects, member by member
    llm_calls,    \* how often the last command called llm_call_with_progress
    previous,     \* the command run before the last one
    search,       \* a cycle check or validation pass in progress, step by step
    call          \* a call of llm_call_with_progress: its two threads, step by step

vars == <<tasks, command, outcome, issues, available, recommended, written,
          disk, llm_calls, previous, search, call>>

-----------------------------------------------------------------------------
(* Bounds of the model *)

NumTasks == 3     \* tasks in a document, with ids 1..NumTasks
MaxEdges == 2     \* dependency entries of a document on disk, over all its tasks
MaxFrames == 3    \* frames the spinner draws during one call of the generator

(* Values *)

None == -1                      \* Python's None for an optional integer
NoValue == "<none>"             \* Python's None for an optional string
Missing == "<missing>"          \* a key the task's JSON object does not have
MissingId == -2                 \* the same, for the key "id"
Unknown == "urgent"             \* a priority that priority_order does not list

TaskIds == 1..NumTasks
AbsentId == NumTasks + 1        \* an id no task of the document has
ArgIds == 0..AbsentId           \* ids a command line can name (type=int)

Truthy(x) == x # None /\ x # 0  \* Python truthiness of an optional integer
TruthyStr(x) == x # NoValue /\ x # ""   \* and of an optional string

-----------------------------------------------------------------------------
(* Sequence helpers (Python list operations) *)

Range(s) == {s[i] : i \in 1..Len(s)}

Contains(s, x) == \E i \in 1..Len(s) : s[i] = x           \* x in s

\* list.remove(x): deletes the first occurrence of x
ListRemove(s, x) ==
    LET first == CHOOSE i \in 1..Len(s) :
                     s[i] = x /\ \A j \in 1..(i - 1) : s[j] # x
    IN  [k \in 1..(Len(s) - 1) |-> IF k < first THEN s[k] ELSE s[k + 1]]

-----------------------------------------------------------------------------
(* tasks.json.  In the file a task is a JSON object, a sequence of members *)
(* <<key, value>>.  json.load makes a dict of it, a function on the keys   *)
(* that are present; the handlers read the dict through task[...] and      *)
(* task.get(...), modelled by a record that shows an absent key as Missing *)
(* and keeps the optional members that are present in `optional`;          *)
(* json.dump writes the members of the dict.  The order of the members is  *)
(* not significant and is written in the order of KeyOrder.                *)

OptionalKeys ==
    {"subtasks", "complexity_score", "complexity_factors", "estimated_effort"}

KeyOrder ==
    <<"id", "description", "status", "dependencies", "priority", "details",
      "subtasks", "complexity_score", "complexity_factors", "estimated_effort">>

\* json.load of one object: of several members with one key the last counts
json_load_object(object) ==
    [key \in {object[m][1] : m \in 1..Len(object)} |->
        object[CHOOSE m \in 1..Len(object) :
                   /\ object[m][1] = key
                   /\ \A n \in (m + 1)..Len(object) : object[n][1] # key][2]]

RECURSIVE dump_members(_, _)
\* the members json.dump writes for the keys KeyOrder[n], KeyOrder[n + 1], ...
dump_members(dict, n) ==
    IF n > Len(KeyOrder) THEN <<>>
    ELSE (IF KeyOrder[n] \in DOMAIN dict
          THEN <<(<<KeyOrder[n], dict[KeyOrder[n]]>>)>> ELSE <<>>)
         \o dump_members(dict, n + 1)

\* json.dump of one dict
json_dump_object(dict) == dump_members(dict, 1)

\* dict.get(key, default)
get(dict, key, default) == IF key \in DOMAIN dict THEN dict[key] ELSE default

\* the dict as the handlers read it
task_record(dict) ==
    [id |-> get(dict, "id", MissingId),
     status |-> get(dict, "status", Missing),
     priority |-> get(dict, "priority", Missing),
     dependencies |-> get(dict, "dependencies", <<>>),
     description |-> get(dict, "description", Missing),
     details |-> get(dict, "details", Missing),
     optional |-> [key \in DOMAIN dict \cap OptionalKeys |-> dict[key]]]

\* the dict behind the record
task_dict(t) ==
    LET present == {"dependencies"}
                   \cup (IF t.id # MissingId THEN {"id"} ELSE {})
                   \cup {key \in {"status", "priority", "description", "details"} :
                            t[key] # Missing}
    IN  [key \in present \cup DOMAIN t.optional |->
            IF key \in DOMAIN t.optional THEN t.optional[key] ELSE t[key]]

\* json.load(f) of the file, as far as its "tasks" list goes
json_load(text) == [i \in 1..Len(text) |-> task_record(json_load_object(text[i]))]

\* json.dump leaving the optional members out
json_dump_without_optional(ts) ==
    [i \in 1..Len(ts) |->
        json_dump_object(task_dict([ts[i] EXCEPT !.optional = <<>>]))]

\* json.dump(tasks_data, f, indent=2, ensure_ascii=False)
json_dump(ts) == [i \in 1..Len(ts) |-> json_dump_object(task_dict(ts[i]))]

-----------------------------------------------------------------------------
(* task_map = {task['id']: task for task in tasks}: for each id the LAST   *)
(* task of the list with that id, as its position in the list (the dict    *)
(* holds the list's own task objects).                                     *)

task_map(ts) ==
    [id \in {ts[i].id : i \in 1..Len(ts)} |->
        CHOOSE i \in 1..Len(ts) :
            ts[i].id = id /\ \A j \in (i + 1)..Len(ts) : ts[j].id # id]

-----------------------------------------------------------------------------
(* would_create_circular_dependency: depth-first search with one visited   *)
(* set shared by the whole call.  has_path returns the answer together     *)
(* with the visited set as it is when the call returns.                    *)

RECURSIVE has_path(_, _, _, _), has_path_deps(_, _, _, _, _)

\* has_path answering True for an id it has visited before
has_path_revisit_is_path(from_id, to_id, visited, ts) ==
    IF from_id = to_id \/ from_id \in visited
    THEN [found |-> TRUE, visited |-> visited]
    ELSE LET tm == task_map(ts)
             v1 == visited \cup {from_id}
         IN  IF from_id \in DOMAIN tm
             THEN has_path_deps(ts[tm[from_id]].dependencies, 1, to_id, v1, ts)
             ELSE [found |-> FALSE, visited |-> v1]

has_path(from_id, to_id, visited, ts) ==
    IF from_id = to_id THEN [found |-> TRUE, visited |-> visited]
    ELSE IF from_id \in visited THEN [found |-> FALSE, visited |-> visited]
    ELSE LET tm == task_map(ts)
             v1 == visited \cup {from_id}
         IN  IF from_id \in DOMAIN tm
             THEN has_path_deps(ts[tm[from_id]].dependencies, 1, to_id, v1, ts)
             ELSE [found |-> FALSE, visited |-> v1]

\* has_path_deps following only the entry at position i, not the rest of the list
has_path_deps_first_only(deps, i, to_id, visited, ts) ==
    IF i > Len(deps) THEN [found |-> FALSE, visited |-> visited]
    ELSE has_path(deps[i], to_id, visited, ts)

\* the loop "for dep_id in task.get('dependencies', [])" from position i on
has_path_deps(deps, i, to_id, visited, ts) ==
    IF i > Len(deps) THEN [found |-> FALSE, visited |-> visited]
    ELSE LET r == has_path(deps[i], to_id, visited, ts)
         IN  IF r.found THEN r
             ELSE has_path_deps(deps, i + 1, to_id, r.visited, ts)

\* would_create_circular_dependency searching from the task to the dependency
would_create_circular_dependency_swapped(task_id, depends_on_id, ts) ==
    has_path(task_id, depends_on_id, {}, ts).found

would_create_circular_dependency(task_id, depends_on_id, ts) ==
    has_path(depends_on_id, task_id, {}, ts).found

-----------------------------------------------------------------------------
(* add_task_dependency / remove_task_dependency.  `ix` is the task object  *)
(* handed in by the caller (its position in the list).  The result is the  *)
(* message printed, the document afterwards and whether it was written.    *)

WithDependencies(ts, ix, deps) ==
    [ts EXCEPT ![ix] = [@ EXCEPT !.dependencies = deps]]

AddRejected(o, ts) == [outcome |-> o, tasks |-> ts, written |-> FALSE]

AddAppended(ix, depends_on_id, ts) ==
    [outcome |-> "DEPENDENCY_ADDED",
     tasks |-> WithDependencies(ts, ix, Append(ts[ix].dependencies, depends_on_id)),
     written |-> TRUE]

\* add_task_dependency without the check for a self-dependency
add_task_dependency_no_self_check(ix, depends_on_id, ts) ==
    IF depends_on_id \notin DOMAIN task_map(ts)
    THEN AddRejected("INVALID_DEPENDENCY_ERROR", ts)
    ELSE IF would_create_circular_dependency(ts[ix].id, depends_on_id, ts)
    THEN AddRejected("CIRCULAR_DEPENDENCY_ERROR", ts)
    ELSE IF ~Contains(ts[ix].dependencies, depends_on_id)
    THEN AddAppended(ix, depends_on_id, ts)
    ELSE AddRejected("ALREADY_DEPENDS", ts)

\* add_task_dependency without the check that the dependency exists
add_task_dependency_no_exists_check(ix, depends_on_id, ts) ==
    IF ts[ix].id = depends_on_id
    THEN AddRejected("SELF_DEPENDENCY_ERROR", ts)
    ELSE IF would_create_circular_dependency(ts[ix].id, depends_on_id, ts)
    THEN AddRejected("CIRCULAR_DEPENDENCY_ERROR", ts)
    ELSE IF ~Contains(ts[ix].dependencies, depends_on_id)
    THEN AddAppended(ix, depends_on_id, ts)
    ELSE AddRejected("ALREADY_DEPENDS", ts)

\* add_task_dependency appending without looking whether the id is present
add_task_dependency_always_appends(ix, depends_on_id, ts) ==
    IF ts[ix].id = depends_on_id
    THEN AddRejected("SELF_DEPENDENCY_ERROR", ts)
    ELSE IF depends_on_id \notin DOMAIN task_map(ts)
    THEN AddRejected("INVALID_DEPENDENCY_ERROR", ts)
    ELSE IF would_create_circular_dependency(ts[ix].id, depends_on_id, ts)
    THEN AddRejected("CIRCULAR_DEPENDENCY_ERROR", ts)
    ELSE AddAppended(ix, depends_on_id, ts)

\* add_task_dependency appending first and running its three checks after
add_task_dependency_appends_first(ix, depends_on_id, ts) ==
    LET appended == AddAppended(ix, depends_on_id, ts).tasks
    IN  IF ts[ix].id = depends_on_id
        THEN AddRejected("SELF_DEPENDENCY_ERROR", appended)
        ELSE IF depends_on_id \notin DOMAIN task_map(ts)
        THEN AddRejected("INVALID_DEPENDENCY_ERROR", appended)
        ELSE IF would_create_circular_dependency(ts[ix].id, depends_on_id, ts)
        THEN AddRejected("CIRCULAR_DEPENDENCY_ERROR", appended)
        ELSE IF ~Contains(ts[ix].dependencies, depends_on_id)
        THEN AddAppended(ix, depends_on_id, ts)
        ELSE AddRejected("ALREADY_DEPENDS", ts)

\* add_task_dependency appending in memory and leaving the save to its caller
add_task_dependency_leaves_save_to_caller(ix, depends_on_id, ts) ==
    IF ts[ix].id = depends_on_id
    THEN AddRejected("SELF_DEPENDENCY_ERROR", ts)
    ELSE IF depends_on_id \notin DOMAIN task_map(ts)
    THEN AddRejected("INVALID_DEPENDENCY_ERROR", ts)
    ELSE IF would_create_circular_dependency(ts[ix].id, depends_on_id, ts)
    THEN AddRejected("CIRCULAR_DEPENDENCY_ERROR", ts)
    ELSE IF ~Contains(ts[ix].dependencies, depends_on_id)
    THEN [AddAppended(ix, depends_on_id, ts) EXCEPT !.written = FALSE]
    ELSE AddRejected("ALREADY_DEPENDS", ts)

add_task_dependency(ix, depends_on_id, ts) ==
    LET task_id == ts[ix].id
        dependencies == ts[ix].dependencies
    IN  IF task_id = depends_on_id
        THEN AddRejected("SELF_DEPENDENCY_ERROR", ts)
        ELSE IF depends_on_id \notin DOMAIN task_map(ts)
        THEN AddRejected("INVALID_DEPENDENCY_ERROR", ts)
        ELSE IF would_create_circular_dependency(task_id, depends_on_id, ts)
        THEN AddRejected("CIRCULAR_DEPENDENCY_ERROR", ts)
        ELSE IF ~Contains(dependencies, depends_on_id)
        THEN AddAppended(ix, depends_on_id, ts)
        ELSE AddRejected("ALREADY_DEPENDS", ts)

\* remove_task_dependency taking the id off the list without saving
remove_task_dependency_no_save(ix, depends_on_id, ts) ==
    IF Contains(ts[ix].dependencies, depends_on_id)
    THEN [outcome |-> "DEPENDENCY_REMOVED",
          tasks |-> WithDependencies(ts, ix, ListRemove(ts[ix].dependencies, depends_on_id)),
          written |-> FALSE]
    ELSE [outcome |-> "DOES_NOT_DEPEND", tasks |-> ts, written |-> FALSE]

\* remove_task_dependency taking the first entry off the list, whatever it is
remove_task_dependency_pops_first(ix, depends_on_id, ts) ==
    IF Contains(ts[ix].dependencies, depends_on_id)
    THEN [outcome |-> "DEPENDENCY_REMOVED",
          tasks |-> WithDependencies(ts, ix, Tail(ts[ix].dependencies)),
          written |-> TRUE]
    ELSE [outcome |-> "DOES_NOT_DEPEND", tasks |-> ts, written |-> FALSE]

remove_task_dependency(ix, depends_on_id, ts) ==
    LET dependencies == ts[ix].dependencies
    IN  IF Contains(dependencies, depends_on_id)
        THEN [outcome |-> "DEPENDENCY_REMOVED",
              tasks |-> WithDependencies(ts, ix, ListRemove(dependencies, depends_on_id)),
              written |-> TRUE]
        ELSE [outcome |-> "DOES_NOT_DEPEND", tasks |-> ts, written |-> FALSE]

-----------------------------------------------------------------------------
(* validate_all_dependencies: the issue list, in the order it is built.    *)

Issue(kind, task_id, dep_id) == [kind |-> kind, task |-> task_id, dep |-> dep_id]

\* the issues one dependency entry contributes (lines 1459-1466)
dep_issues(task_id, dep_id, ts) ==
    (IF dep_id \notin DOMAIN task_map(ts)
     THEN <<Issue("DanglingReference", task_id, dep_id)>> ELSE <<>>)
    \o (IF dep_id = task_id
        THEN <<Issue("SelfDependency", task_id, dep_id)>> ELSE <<>>)

RECURSIVE task_dep_issues(_, _, _), reference_issues(_, _), cycle_issues(_, _)

\* task_dep_issues leaving the loop after the first entry that has an issue
task_dep_issues_stops_at_first(ts, i, k) ==
    IF k > Len(ts[i].dependencies) THEN <<>>
    ELSE LET found == dep_issues(ts[i].id, ts[i].dependencies[k], ts)
         IN  IF found # <<>> THEN found ELSE task_dep_issues(ts, i, k + 1)

\* the inner loop over one task's dependencies, from position k on
task_dep_issues(ts, i, k) ==
    IF k > Len(ts[i].dependencies) THEN <<>>
    ELSE dep_issues(ts[i].id, ts[i].dependencies[k], ts)
         \o task_dep_issues(ts, i, k + 1)

\* the first loop over the tasks, from position i on
reference_issues(ts, i) ==
    IF i > Len(ts) THEN <<>>
    ELSE task_dep_issues(ts, i, 1) \o reference_issues(ts, i + 1)

\* the second loop over the tasks, from position i on
cycle_issues(ts, i) ==
    IF i > Len(ts) THEN <<>>
    ELSE (IF would_create_circular_dependency(ts[i].id, ts[i].id, ts)
          THEN <<Issue("CycleInvolving", ts[i].id, ts[i].id)>> ELSE <<>>)
         \o cycle_issues(ts, i + 1)

validate_all_dependencies(ts) == reference_issues(ts, 1) \o cycle_issues(ts, 1)

-----------------------------------------------------------------------------
(* The same cycle check and validation pass, one step of the interpreter   *)
(* at a time.  A frame of the stack is one call of has_path: the id it was *)
(* called for and the position k of its loop over the dependencies (0: the *)
(* call has not passed its two tests yet).  `expanded` lists the ids in    *)
(* the order visited.add received them.                                    *)

\* Python's recursion limit, scaled to the model: deeper than a search that
\* expands no id twice can get
RecursionLimit == NumTasks + 2

Frame(node) == [node |-> node, k |-> 0]

\* would_create_circular_dependency(task_id, depends_on_id, task_map) is called
check_call(task_id, depends_on_id) ==
    [call |-> "check", i |-> 0, task_id |-> task_id, depends_on_id |-> depends_on_id,
     to_id |-> task_id, visited |-> {}, expanded |-> <<>>,
     stack |-> <<Frame(depends_on_id)>>, status |-> "running", found |-> FALSE,
     issues |-> <<>>]

\* validate_all_dependencies(tasks) is called: the first loop is done and the
\* second loop makes its first call of would_create_circular_dependency
validate_call(ts) ==
    [call |-> "validate", i |-> 1, task_id |-> None, depends_on_id |-> None,
     to_id |-> IF ts = <<>> THEN None ELSE ts[1].id, visited |-> {},
     expanded |-> <<>>,
     stack |-> IF ts = <<>> THEN <<>> ELSE <<Frame(ts[1].id)>>,
     status |-> IF ts = <<>> THEN "returned" ELSE "running", found |-> FALSE,
     issues |-> reference_issues(ts, 1)]

\* the outermost has_path returns: the check has its answer
check_returns(s, found) ==
    IF s.call = "check"
    THEN [s EXCEPT !.stack = <<>>, !.found = found, !.status = "returned"]
    ELSE [s EXCEPT !.stack = <<>>, !.found = found]

\* "return True": every enclosing call returns True in its turn
return_true(s) == check_returns(s, TRUE)

\* "return False": the caller goes on with its loop
return_false(s) ==
    IF Len(s.stack) = 1 THEN check_returns(s, FALSE)
    ELSE [s EXCEPT !.stack = SubSeq(s.stack, 1, Len(s.stack) - 1)]

\* has_path_enter without the test "if from_id in visited"
has_path_enter_no_visited_test(s, ts) ==
    LET from_id == s.stack[Len(s.stack)].node
        entered == [s EXCEPT !.visited = @ \cup {from_id},
                             !.expanded = Append(@, from_id)]
    IN  IF from_id = s.to_id THEN return_true(s)
        ELSE IF from_id \in DOMAIN task_map(ts)
        THEN [entered EXCEPT !.stack[Len(s.stack)].k = 1]
        ELSE return_false(entered)

\* a call of has_path up to its loop (lines 1432-1438)
has_path_enter(s, ts) ==
    LET from_id == s.stack[Len(s.stack)].node
        entered == [s EXCEPT !.visited = @ \cup {from_id},
                             !.expanded = Append(@, from_id)]
    IN  IF from_id = s.to_id THEN return_true(s)
        ELSE IF from_id \in s.visited THEN return_false(s)
        ELSE IF from_id \in DOMAIN task_map(ts)
        THEN [entered EXCEPT !.stack[Len(s.stack)].k = 1]
        ELSE return_false(entered)

\* one turn of the loop of has_path (lines 1440-1443): the recursive call
\* for the next dependency, or "return False" behind the last
has_path_loop(s, ts) ==
    LET top == s.stack[Len(s.stack)]
        dependencies == ts[task_map(ts)[top.node]].dependencies
    IN  IF top.k > Len(dependencies) THEN return_false(s)
        ELSE IF Len(s.stack) = RecursionLimit
        THEN [s EXCEPT !.status = "RecursionError"]
        ELSE [s EXCEPT !.stack = Append([@ EXCEPT ![Len(s.stack)].k = top.k + 1],
                                        Frame(dependencies[top.k]))]

\* the second loop of validate_all_dependencies has its answer for task i
\* (lines 1469-1472) and goes on to the next task
validate_next(s, ts) ==
    LET listed == IF s.found
                  THEN Append(s.issues, Issue("CycleInvolving", ts[s.i].id, ts[s.i].id))
                  ELSE s.issues
    IN  IF s.i = Len(ts)
        THEN [s EXCEPT !.issues = listed, !.status = "returned"]
        ELSE [s EXCEPT !.issues = listed, !.i = s.i + 1, !.to_id = ts[s.i + 1].id,
                       !.visited = {}, !.expanded = <<>>, !.found = FALSE,
                       !.stack = <<Frame(ts[s.i + 1].id)>>]

search_step(s, ts) ==
    IF s.stack = <<>> THEN validate_next(s, ts)
    ELSE IF s.stack[Len(s.stack)].k = 0 THEN has_path_enter(s, ts)
    ELSE has_path_loop(s, ts)

-----------------------------------------------------------------------------
(* find_next_available_task: the pending tasks whose dependencies are all  *)
(* completed, sorted by (priority rank, id), reverse=True.                 *)

\* priority_rank ranking a priority that priority_order does not list as low
priority_rank_default_low(priority) ==
    LET p == IF priority = Missing THEN "medium" ELSE priority
    IN  CASE p = "high" -> 3
          [] p = "medium" -> 2
          [] OTHER -> 1

\* priority_order.get(t.get('priority', 'medium'), 2)
priority_rank(priority) ==
    LET p == IF priority = Missing THEN "medium" ELSE priority
    IN  CASE p = "high" -> 3
          [] p = "medium" -> 2
          [] p = "low" -> 1
          [] OTHER -> 2

\* sort_key without the id: tasks of one priority rank compare equal
sort_key_rank_only(t) == <<priority_rank(t.priority), 0>>

\* the sort key of a task, a pair compared lexicographically
sort_key(t) == <<priority_rank(t.priority), t.id>>

KeyLess(a, b) == a[1] < b[1] \/ (a[1] = b[1] /\ a[2] < b[2])

\* all_deps_completed taking a dependency that is not in task_map as done
all_deps_completed_skips_missing(t, ts) ==
    \A k \in 1..Len(t.dependencies) :
        LET dep_id == t.dependencies[k]
            tm == task_map(ts)
        IN  dep_id \in DOMAIN tm => ts[tm[dep_id]].status = "completed"

\* all_deps_completed with the test of the dependency's status inverted
all_deps_completed_inverted(t, ts) ==
    \A k \in 1..Len(t.dependencies) :
        LET dep_id == t.dependencies[k]
            tm == task_map(ts)
        IN  dep_id \in DOMAIN tm /\ ts[tm[dep_id]].status # "completed"

\* the loop over one task's dependencies (lines 1187-1191)
all_deps_completed(t, ts) ==
    \A k \in 1..Len(t.dependencies) :
        LET dep_id == t.dependencies[k]
            tm == task_map(ts)
        IN  dep_id \in DOMAIN tm /\ ts[tm[dep_id]].status = "completed"

RECURSIVE collect_available(_, _), sort_insert(_, _), sort_reverse(_, _)

\* collect_available taking every pending task, whatever it depends on
collect_available_pending_only(ts, i) ==
    IF i > Len(ts) THEN <<>>
    ELSE (IF ts[i].status = "pending" THEN <<ts[i]>> ELSE <<>>)
         \o collect_available(ts, i + 1)

\* collect_available holding a task back while one of its subtasks is pending
collect_available_waits_for_subtasks(ts, i) ==
    IF i > Len(ts) THEN <<>>
    ELSE (IF /\ ts[i].status = "pending" /\ all_deps_completed(ts[i], ts)
             /\ \A k \in 1..Len(get(ts[i].optional, "subtasks", <<>>)) :
                    ts[i].optional.subtasks[k].status # "pending"
          THEN <<ts[i]>> ELSE <<>>)
         \o collect_available(ts, i + 1)

\* the loop over the tasks, from position i on: appends in list order
collect_available(ts, i) ==
    IF i > Len(ts) THEN <<>>
    ELSE (IF ts[i].status = "pending" /\ all_deps_completed(ts[i], ts)
          THEN <<ts[i]>> ELSE <<>>)
         \o collect_available(ts, i + 1)

\* list.sort(key=..., reverse=True) is stable: a task goes behind every
\* task already placed whose key is not smaller than its own
sort_insert(sorted, t) ==
    IF sorted = <<>> THEN <<t>>
    ELSE IF KeyLess(sort_key(Head(sorted)), sort_key(t))
         THEN <<t>> \o sorted
         ELSE <<Head(sorted)>> \o sort_insert(Tail(sorted), t)

sort_reverse(list, i) ==
    IF i = 0 THEN <<>>
    ELSE sort_insert(sort_reverse(list, i - 1), list[i])

find_next_available_task(ts) ==
    LET available_tasks == collect_available(ts, 1)
    IN  sort_reverse(available_tasks, Len(available_tasks))

-----------------------------------------------------------------------------
(* The command handlers, as functions of the loaded document and the       *)
(* command's arguments.                                                    *)

Result(o, ts, w) ==
    [outcome |-> o, tasks |-> ts, written |-> w, issues |-> <<>>,
     available |-> <<>>, recommended |-> None, llm_calls |-> 0]

\* handle_task_dependencies
handle_task_dependencies(ts, add_dep, remove_dep, task_id, depends_on, validate) ==
    LET tm == task_map(ts)
    IN  IF validate
        THEN [Result("DEPENDENCY_VALIDATION_COMPLETE", ts, FALSE)
                 EXCEPT !.issues = validate_all_dependencies(ts)]
        ELSE IF task_id = None
        THEN Result("TASK_ID_REQUIRED", ts, FALSE)
        ELSE IF task_id \notin DOMAIN tm
        THEN Result("TASK_NOT_FOUND", ts, FALSE)
        ELSE IF add_dep /\ Truthy(depends_on)
        THEN LET r == add_task_dependency(tm[task_id], depends_on, ts)
             IN  Result(r.outcome, r.tasks, r.written)
        ELSE IF remove_dep /\ Truthy(depends_on)
        THEN LET r == remove_task_dependency(tm[task_id], depends_on, ts)
             IN  Result(r.outcome, r.tasks, r.written)
        ELSE Result("USAGE", ts, FALSE)

\* The arbiter's reply in handle_task_next: the call raises ("error"), the
\* reply is not JSON ("badjson"), or it carries a recommended_task_id.
ArbiterReplies ==
    {[kind |-> "error", id |-> None], [kind |-> "badjson", id |-> None]}
    \cup {[kind |-> "id", id |-> i] : i \in ArgIds \cup {None}}

\* next((task for task in available_tasks if task.get('id') == id), None)
first_with_id(list, id) ==
    IF \E i \in 1..Len(list) : list[i].id = id
    THEN LET i == CHOOSE i \in 1..Len(list) :
                      list[i].id = id /\ \A j \in 1..(i - 1) : list[j].id # id
         IN  i
    ELSE 0

\* handle_task_next displaying whatever id the arbiter names
handle_task_next_trusts_arbiter(ts, reply) ==
    LET available_tasks == find_next_available_task(ts)
    IN  IF available_tasks = <<>>
        THEN Result("NO_AVAILABLE_TASKS", ts, FALSE)
        ELSE IF Len(available_tasks) = 1
        THEN [Result("NEXT_TASK_FOUND", ts, FALSE)
                 EXCEPT !.available = available_tasks,
                        !.recommended = available_tasks[1].id]
        ELSE IF reply.kind = "id" /\ reply.id # None
        THEN [Result("AI_RECOMMENDATION", ts, FALSE)
                 EXCEPT !.available = available_tasks, !.llm_calls = 1,
                        !.recommended = reply.id]
        ELSE [Result("DEFAULT_TO_HIGHEST", ts, FALSE)
                 EXCEPT !.available = available_tasks, !.llm_calls = 1,
                        !.recommended = available_tasks[1].id]

\* handle_task_next sorting the document's own task list instead of a new one
handle_task_next_sorts_document(ts, reply) ==
    LET available_tasks == find_next_available_task(ts)
        sorted == sort_reverse(ts, Len(ts))
    IN  IF available_tasks = <<>>
        THEN Result("NO_AVAILABLE_TASKS", sorted, FALSE)
        ELSE [Result("NEXT_TASK_FOUND", sorted, FALSE)
                 EXCEPT !.available = available_tasks,
                        !.recommended = available_tasks[1].id]

\* handle_task_next
handle_task_next(ts, reply) ==
    IF ts = <<>> THEN Result("NO_TASKS", ts, FALSE)
    ELSE
    LET available_tasks == find_next_available_task(ts)
        found == IF reply.kind = "id"
                 THEN first_with_id(available_tasks, reply.id) ELSE 0
    IN  IF available_tasks = <<>>
        THEN Result("NO_AVAILABLE_TASKS", ts, FALSE)
        ELSE IF Len(available_tasks) = 1
        THEN [Result("NEXT_TASK_FOUND", ts, FALSE)
                 EXCEPT !.available = available_tasks,
                        !.recommended = available_tasks[1].id]
        ELSE IF found # 0
        THEN [Result("AI_RECOMMENDATION", ts, FALSE)
                 EXCEPT !.available = available_tasks, !.llm_calls = 1,
                        !.recommended = available_tasks[found].id]
        ELSE [Result("DEFAULT_TO_HIGHEST", ts, FALSE)
                 EXCEPT !.available = available_tasks, !.llm_calls = 1,
                        !.recommended = available_tasks[1].id]

\* handle_task_update assigning all four fields, given or not
handle_task_update_assigns_all(ts, task_id_arg, new_status, new_priority, new_description, new_details) ==
    LET ix == first_with_id(ts, task_id_arg)
    IN  IF ix = 0 THEN Result("TASK_NOT_FOUND", ts, FALSE)
        ELSE Result("TASK_UPDATED_SUCCESS",
                    [ts EXCEPT ![ix] = [@ EXCEPT !.status = new_status,
                                                 !.priority = new_priority,
                                                 !.description = new_description,
                                                 !.details = new_details]], TRUE)

\* handle_task_update, non-interactive mode (--task-id given)
handle_task_update(ts, task_id_arg, new_status, new_priority, new_description, new_details) ==
    IF ts = <<>> THEN Result("NO_TASKS", ts, FALSE)
    ELSE IF \E i \in 1..Len(ts) : ts[i].status = Missing \/ ts[i].priority = Missing
    THEN Result("KeyError", ts, FALSE)      \* task['status'] in the listing
    ELSE
    LET ix == first_with_id(ts, task_id_arg)
        s1 == IF TruthyStr(new_status)
              THEN [ts EXCEPT ![ix] = [@ EXCEPT !.status = new_status]] ELSE ts
        s2 == IF TruthyStr(new_priority)
              THEN [s1 EXCEPT ![ix] = [@ EXCEPT !.priority = new_priority]] ELSE s1
        s3 == IF TruthyStr(new_description)
              THEN [s2 EXCEPT ![ix] = [@ EXCEPT !.description = new_description]]
              ELSE s2
        s4 == IF TruthyStr(new_details)
              THEN [s3 EXCEPT ![ix] = [@ EXCEPT !.details = new_details]] ELSE s3
    IN  IF ix = 0 THEN Result("TASK_NOT_FOUND", ts, FALSE)
        ELSE Result("TASK_UPDATED_SUCCESS", s4, TRUE)

\* The generator's reply in handle_task_expand: the call raises ("error"),
\* the reply is not JSON ("badjson"), or it is an object whose "subtasks"
\* are the given list (an object without the key gives the empty list).
NewSubtasks == <<[id |-> "new.1", status |-> "pending"]>>

ExpandReplies ==
    {[kind |-> "error", subtasks |-> <<>>], [kind |-> "badjson", subtasks |-> <<>>],
     [kind |-> "object", subtasks |-> <<>>], [kind |-> "object", subtasks |-> NewSubtasks]}

\* target_task['subtasks'] = subtasks
WithSubtasks(ts, ix, subtasks) ==
    [ts EXCEPT ![ix] = [@ EXCEPT !.optional =
        [key \in DOMAIN @ \cup {"subtasks"} |->
            IF key = "subtasks" THEN subtasks ELSE @[key]]]]

\* handle_task_expand
handle_task_expand(ts, task_id, force, reply) ==
    LET ix == first_with_id(ts, task_id)
        called == [Result("EXPAND_ERROR", ts, FALSE) EXCEPT !.llm_calls = 1]
    IN  IF ix = 0 THEN Result("TASK_NOT_FOUND", ts, FALSE)
        ELSE IF /\ "subtasks" \in DOMAIN ts[ix].optional
                /\ ts[ix].optional.subtasks # <<>>
                /\ ~force
        THEN Result("ALREADY_HAS_SUBTASKS", ts, FALSE)
        ELSE IF reply.kind = "error" THEN called
        ELSE IF reply.kind = "badjson" THEN [called EXCEPT !.outcome = "INVALID_JSON"]
        ELSE [called EXCEPT !.outcome = "TASK_EXPAND_SUCCESS",
                            !.tasks = WithSubtasks(ts, ix, reply.subtasks),
                            !.written = TRUE]

\* The generator's reply in task-init and task-research: the call raises
\* ("error"), the reply is not JSON ("badjson"), or it is a document whose
\* "tasks" are the given objects ("tasks").
ImportReply(kind, objects) == [kind |-> kind, tasks |-> objects]

\* import_tasks opening tasks.json for writing before it parses the reply
import_tasks_opens_file_first(ts, reply, saved) ==
    LET called == [Result("LLM_ERROR", ts, FALSE) EXCEPT !.llm_calls = 1]
    IN  IF reply.kind = "error" THEN called
        ELSE IF reply.kind = "badjson"
        THEN [called EXCEPT !.outcome = "INVALID_JSON", !.tasks = <<>>,
                            !.written = TRUE]
        ELSE [called EXCEPT !.outcome = saved, !.tasks = json_load(reply.tasks),
                            !.written = TRUE]

\* json.loads of the reply and json.dump of what it gave, nothing between
import_tasks(ts, reply, saved) ==
    LET called == [Result("LLM_ERROR", ts, FALSE) EXCEPT !.llm_calls = 1]
    IN  IF reply.kind = "error" THEN called
        ELSE IF reply.kind = "badjson" THEN [called EXCEPT !.outcome = "INVALID_JSON"]
        ELSE [called EXCEPT !.outcome = saved, !.tasks = json_load(reply.tasks),
                            !.written = TRUE]

\* handle_task_init: the tasks of the project are generated from its PRD
handle_task_init(ts, reply) == import_tasks(ts, reply, "TASKS_SAVED")

\* handle_research_backed_tasks: existing tasks are enhanced, unless --force
\* is given or there are none; then the tasks are generated from the PRD
handle_research_backed_tasks(ts, force, reply) ==
    IF ts # <<>> /\ ~force
    THEN import_tasks(ts, reply, "ENHANCED_TASKS_SAVED")
    ELSE import_tasks(ts, reply, "RESEARCH_TASKS_SAVED")

-----------------------------------------------------------------------------
(* Documents the commands can find on disk.  A document has NumTasks tasks *)
(* with the ids 1..NumTasks in list order (the generator numbers them from *)
(* 1); its dependency lists may hold any id, the absent one included.      *)

DepTargets == 1..AbsentId

\* the lists over DepTargets of exactly n entries
ListsOfLen(n) == [1..n -> DepTargets]

RECURSIVE DepAssignments(_, _)
\* the ways to give tasks i..NumTasks dependency lists of `budget` entries in all
DepAssignments(i, budget) ==
    IF i > NumTasks THEN {<<>>}
    ELSE UNION {{<<d>> \o rest : rest \in DepAssignments(i + 1, budget - Len(d))} :
                d \in UNION {ListsOfLen(n) : n \in 0..budget}}

Document(st, pr, dp) ==
    [i \in TaskIds |->
        [id |-> i, status |-> st[i], priority |-> pr[i], dependencies |-> dp[i],
         description |-> "description", details |-> "details",
         optional |-> <<>>]]

\* the text of a tasks.json that holds the document
DocumentText(ts) == [i \in 1..Len(ts) |-> json_dump_object(task_dict(ts[i]))]

\* the document on disk is loaded: any one of the given vocabulary
Loaded(statuses, priorities, maxEdges) ==
    \E st \in [TaskIds -> statuses], pr \in [TaskIds -> priorities] :
        \E dp \in DepAssignments(1, maxEdges) :
            /\ disk = DocumentText(Document(st, pr, dp))
            /\ tasks = json_load(disk)

(* The dependency graph of a document: an edge from a task to each entry   *)
(* of its dependency list.                                                 *)

Ids(ts) == {ts[i].id : i \in 1..Len(ts)}

Edges(ts) ==
    UNION {{<<ts[i].id, ts[i].dependencies[k]>> : k \in 1..Len(ts[i].dependencies)} :
           i \in 1..Len(ts)}

RECURSIVE Closure(_, _)
Closure(R, n) ==
    IF n = 0 THEN R
    ELSE LET C == Closure(R, n - 1)
         IN  C \cup UNION {{<<e[1], f[2]>> : f \in {g \in R : g[1] = e[2]}} : e \in C}

\* a non-empty path of dependency edges leads from a to b
Path(ts, a, b) == <<a, b>> \in Closure(Edges(ts), Cardinality(Edges(ts)))

\* no task has a path to itself
Acyclic(ts) ==
    LET C == Closure(Edges(ts), Cardinality(Edges(ts)))
    IN  \A a \in Ids(ts) : <<a, a>> \notin C

NoDangling(ts) == \A e \in Edges(ts) : e[2] \in Ids(ts)

NoDuplicates(ts) ==
    \A i \in 1..Len(ts) :
        \A k, l \in 1..Len(ts[i].dependencies) :
            ts[i].dependencies[k] = ts[i].dependencies[l] => k = l

-----------------------------------------------------------------------------
(* The commands.  Each is one run of the program: it loads tasks.json,     *)
(* runs its handler and leaves the document as the handler wrote it.       *)

NoReply == [kind |-> "none", id |-> None]

\* no cycle check is in progress
NoSearch == [call |-> "none"]

\* no call of llm_call_with_progress is in progress
NoCall == [main |-> "none"]

NoCommand ==
    [name |-> "none", add_dep |-> FALSE, remove_dep |-> FALSE, task_id |-> None,
     depends_on |-> None, validate |-> FALSE, status |-> NoValue,
     priority |-> NoValue, description |-> NoValue, details |-> NoValue,
     force |-> FALSE, reply |-> NoReply]

\* the command has run: r is what its handler did
Apply(r) ==
    /\ tasks' = r.tasks
    /\ outcome' = r.outcome
    /\ issues' = r.issues
    /\ available' = r.available
    /\ recommended' = r.recommended
    /\ written' = r.written
    /\ llm_calls' = r.llm_calls
    /\ disk' = IF r.written THEN json_dump(r.tasks) ELSE disk
    /\ previous' = command
    /\ UNCHANGED <<search, call>>

\* auto-prdgen task-deps [--add] [--remove] [--id X] [--depends-on Y] [--validate]
TaskDeps(add_dep, remove_dep, task_id, depends_on, validate) ==
    /\ command' = [NoCommand EXCEPT !.name = "task-deps", !.add_dep = add_dep,
                       !.remove_dep = remove_dep, !.task_id = task_id,
                       !.depends_on = depends_on, !.validate = validate]
    /\ Apply(handle_task_dependencies(tasks, add_dep, remove_dep, task_id,
                                      depends_on, validate))

\* auto-prdgen task-next, the arbiter answering `reply` if it is asked
TaskNext(reply) ==
    /\ command' = [NoCommand EXCEPT !.name = "task-next", !.reply = reply]
    /\ Apply(handle_task_next(tasks, reply))

\* auto-prdgen task-update --task-id X [--status S] [--priority P]
\*                         [--description D] [--details E]
TaskUpdate(task_id_arg, new_status, new_priority, new_description, new_details) ==
    /\ command' = [NoCommand EXCEPT !.name = "task-update", !.task_id = task_id_arg,
                       !.status = new_status, !.priority = new_priority,
                       !.description = new_description, !.details = new_details]
    /\ Apply(handle_task_update(tasks, task_id_arg, new_status, new_priority,
                                new_description, new_details))

\* auto-prdgen task-expand --id X [--force]
TaskExpand(task_id, force, reply) ==
    /\ command' = [NoCommand EXCEPT !.name = "task-expand", !.task_id = task_id,
                       !.force = force, !.reply = reply]
    /\ Apply(handle_task_expand(tasks, task_id, force, reply))

\* auto-prdgen task-init
TaskInit(reply) ==
    /\ command' = [NoCommand EXCEPT !.name = "task-init", !.reply = reply]
    /\ Apply(handle_task_init(tasks, reply))

\* auto-prdgen task-research [--force]
TaskResearch(force, reply) ==
    /\ command' = [NoCommand EXCEPT !.name = "task-research", !.force = force,
                       !.reply = reply]
    /\ Apply(handle_research_backed_tasks(tasks, force, reply))

OptIds == ArgIds \cup {None}
StatusArgs == {NoValue, "pending", "completed"}
PriorityArgs == {NoValue, "low", "high"}

\* --validate ignores the other arguments
DepsValidate == TaskDeps(FALSE, FALSE, None, None, TRUE)

DepsEdit ==
    \E add_dep, remove_dep \in BOOLEAN :
        \E task_id, depends_on \in OptIds :
            TaskDeps(add_dep, remove_dep, task_id, depends_on, FALSE)

DepsCommand == DepsValidate \/ DepsEdit

NextCommand == \E reply \in ArbiterReplies : TaskNext(reply)

\* task-update with --status and --priority at most
UpdateCommand ==
    \E task_id_arg \in ArgIds, new_status \in StatusArgs, new_priority \in PriorityArgs :
        TaskUpdate(task_id_arg, new_status, new_priority, NoValue, NoValue)

DescriptionArgs == {NoValue, "", "new description"}
DetailsArgs == {NoValue, "new details"}

\* task-update with any of its four options
UpdateFields ==
    \E task_id_arg \in ArgIds, new_status \in StatusArgs, new_priority \in PriorityArgs :
        \E new_description \in DescriptionArgs, new_details \in DetailsArgs :
            TaskUpdate(task_id_arg, new_status, new_priority,
                       new_description, new_details)

-----------------------------------------------------------------------------
(* llm_call_with_progress: the main thread starts a worker thread that     *)
(* asks the generator and puts its answer on result_queue, draws the       *)
(* spinner while the worker is alive, and then takes the answer off the    *)
(* queue.  `main` and `worker` are the two threads' positions, `item` the  *)
(* worker's pair for the queue, `got` the pair the main thread took.       *)

\* What model.generate_content(prompt) does: it returns a response with a
\* text ("text"), it raises ("raises"), or it returns a response whose
\* .text raises because it holds no text ("no_text")
Generators ==
    {[kind |-> "text", value |-> "{\"tasks\": []}"],
     [kind |-> "text", value |-> "not JSON"],
     [kind |-> "raises", value |-> "quota exceeded"],
     [kind |-> "no_text", value |-> "response has no text"]}

NoItem == <<"none", "">>

\* llm_call_with_progress(model, prompt, desc) is called: the spinner and
\* the queue are made (lines 94-101)
llm_call(generator) ==
    [generator |-> generator, main |-> "start", worker |-> "unstarted",
     item |-> NoItem, queue |-> <<>>, got |-> NoItem, puts |-> 0,
     spinner |-> "made", frames |-> 0, stops |-> 0, result |-> NoItem]

\* make_call dropping an exception instead of putting it on the queue
make_call_swallows_error(c) ==
    CASE c.worker = "generate" ->
             IF c.generator.kind = "raises" THEN [c EXCEPT !.worker = "done"]
             ELSE [c EXCEPT !.worker = "text"]
      [] c.worker = "text" ->
             IF c.generator.kind = "no_text" THEN [c EXCEPT !.worker = "done"]
             ELSE [c EXCEPT !.worker = "put",
                            !.item = <<"success", c.generator.value>>]
      [] c.worker = "put" ->
             [c EXCEPT !.queue = Append(@, c.item), !.puts = @ + 1,
                       !.worker = "done"]

\* one step of the worker thread, make_call (lines 103-108)
make_call(c) ==
    CASE c.worker = "generate" ->
             IF c.generator.kind = "raises"
             THEN [c EXCEPT !.worker = "put", !.item = <<"error", c.generator.value>>]
             ELSE [c EXCEPT !.worker = "text"]
      [] c.worker = "text" ->
             IF c.generator.kind = "no_text"
             THEN [c EXCEPT !.worker = "put", !.item = <<"error", c.generator.value>>]
             ELSE [c EXCEPT !.worker = "put",
                            !.item = <<"success", c.generator.value>>]
      [] c.worker = "put" ->
             [c EXCEPT !.queue = Append(@, c.item), !.puts = @ + 1,
                       !.worker = "done"]

\* thread.is_alive()
is_alive(c) == c.worker \notin {"unstarted", "done"}

\* the main thread can make a step: it is not waiting in thread.join() or
\* result_queue.get(); the loop goes round MaxFrames times at most while the
\* worker is alive (the generator answers in that time)
main_can_step(c) ==
    CASE c.main \in {"returned", "raised"} -> FALSE
      [] c.main = "alive" -> ~is_alive(c) \/ c.frames < MaxFrames
      [] c.main = "join" -> ~is_alive(c)
      [] c.main = "get" -> c.queue # <<>>
      [] OTHER -> TRUE

\* one step of the main thread (lines 110-129)
main_step(c) ==
    CASE c.main = "start" -> [c EXCEPT !.worker = "generate", !.main = "alive"]
      [] c.main = "alive" ->
             IF is_alive(c) THEN [c EXCEPT !.main = "spin"]
             ELSE [c EXCEPT !.main = "stop"]
      [] c.main = "spin" ->
             [c EXCEPT !.spinner = "drawing", !.frames = @ + 1, !.main = "alive"]
      [] c.main = "stop" ->
             [c EXCEPT !.spinner = "stopped", !.stops = @ + 1, !.main = "join"]
      [] c.main = "join" -> [c EXCEPT !.main = "get"]
      [] c.main = "get" ->
             [c EXCEPT !.got = Head(c.queue), !.queue = Tail(c.queue),
                       !.main = "check"]
      [] c.main = "check" ->
             IF c.got[1] = "error" THEN [c EXCEPT !.main = "except"]
             ELSE [c EXCEPT !.main = "returned", !.result = <<"return", c.got[2]>>]
      [] c.main = "except" ->
             [c EXCEPT !.spinner = "stopped", !.stops = @ + 1,
                       !.main = "raised", !.result = <<"raise", c.got[2]>>]

-----------------------------------------------------------------------------
(* Specifications.  A run of the program is one command on the document it *)
(* finds; the initial documents are all the documents within the bounds,   *)
(* so a specification explores each command on each of them.               *)

Fresh ==
    /\ command = NoCommand
    /\ previous = NoCommand
    /\ outcome = "none"
    /\ issues = <<>>
    /\ available = <<>>
    /\ recommended = None
    /\ written = FALSE
    /\ llm_calls = 0
    /\ search = NoSearch
    /\ call = NoCall

First == command = NoCommand

\* any document, hand-edited ones included; every task pending and medium
AnyGraph == Loaded({"pending"}, {"medium"}, MaxEdges)

\* Spec: one command of any kind on any document
Init == AnyGraph /\ Fresh

Next ==
    \/ First /\ DepsCommand
    \/ First /\ NextCommand
    \/ First /\ UpdateCommand

Spec == Init /\ [][Next]_vars

\* SpecDeps: one task-deps command on any document
NextDeps ==
    \/ First /\ DepsValidate
    \/ First /\ DepsEdit

SpecDeps == Init /\ [][NextDeps]_vars

\* a further task-deps command on the ids of the last one
DepsAgain ==
    \E add_dep, remove_dep \in BOOLEAN :
        TaskDeps(add_dep, remove_dep, command.task_id, command.depends_on, FALSE)

\* SpecTwice: a task-deps command and, when it added a dependency, a second
\* one on the same two ids
NextTwice ==
    \/ First /\ DepsEdit
    \/ outcome = "DEPENDENCY_ADDED" /\ DepsAgain

SpecTwice == Init /\ [][NextTwice]_vars

\* task-expand: --id is required
ExpandCommand ==
    \E task_id \in ArgIds, force \in BOOLEAN, reply \in ExpandReplies :
        TaskExpand(task_id, force, reply)

\* SpecStore: one command that can write tasks.json, on a document with one
\* dependency at most whose tasks have the optional members or lack them,
\* and whose first task may lack its status
OldSubtasks == <<[id |-> "old.1", status |-> "pending"]>>

OptionalChoices ==
    {<<>>,
     [subtasks |-> OldSubtasks, complexity_score |-> 7,
      complexity_factors |-> <<"factor">>, estimated_effort |-> "Medium (3-5 days)"]}

StoreStatuses ==
    {[i \in TaskIds |-> "pending"],
     [i \in TaskIds |-> IF i = 1 THEN Missing ELSE "pending"]}

StoredDocument ==
    \E st \in StoreStatuses, op \in [TaskIds -> OptionalChoices] :
        \E dp \in DepAssignments(1, 1) :
            /\ disk = DocumentText([i \in TaskIds |->
                          [Document(st, [j \in TaskIds |-> "medium"], dp)[i]
                              EXCEPT !.optional = op[i]]])
            /\ tasks = json_load(disk)

InitStore == StoredDocument /\ Fresh

NextStore ==
    \/ First /\ DepsEdit
    \/ First /\ UpdateFields
    \/ First /\ ExpandCommand

SpecStore == InitStore /\ [][NextStore]_vars

\* The objects a generator can propose as its i-th task: a complete one, one
\* with the research fields too, and one without an "id"
Candidate(i, with_id, with_research) ==
    (IF with_id THEN <<(<<"id", i>>)>> ELSE <<>>)
    \o <<(<<"description", "generated">>), (<<"status", "pending">>),
         (<<"dependencies", IF i = 1 THEN <<>> ELSE <<i - 1>>>>),
         (<<"priority", "medium">>), (<<"details", "generated">>)>>
    \o (IF with_research
        THEN <<(<<"complexity_score", 7>>), (<<"estimated_effort", "Medium (3-5 days)">>)>>
        ELSE <<>>)

Candidates(i) ==
    {Candidate(i, TRUE, FALSE), Candidate(i, TRUE, TRUE), Candidate(i, FALSE, FALSE)}

RECURSIVE CandidateLists(_)
\* the candidate lists of n objects
CandidateLists(n) ==
    IF n = 0 THEN {<<>>}
    ELSE {Append(list, c) : list \in CandidateLists(n - 1), c \in Candidates(n)}

ImportReplies ==
    {ImportReply("error", <<>>), ImportReply("badjson", <<>>)}
    \cup {ImportReply("tasks", list) : list \in UNION {CandidateLists(n) : n \in 0..NumTasks}}

InitCommand == \E reply \in ImportReplies : TaskInit(reply)

ResearchCommand ==
    \E force \in BOOLEAN, reply \in ImportReplies : TaskResearch(force, reply)

\* SpecImport: one task-init or task-research in a project that has no tasks
\* yet or has tasks with one dependency at most
NoDocument == disk = <<>> /\ tasks = json_load(disk)

InitImport == (NoDocument \/ Loaded({"pending"}, {"medium"}, 1)) /\ Fresh

NextImport ==
    \/ First /\ InitCommand
    \/ First /\ ResearchCommand

SpecImport == InitImport /\ [][NextImport]_vars

\* a cycle check or a validation pass is called on the loaded document
SearchStart ==
    /\ search = NoSearch
    /\ \/ \E task_id, depends_on_id \in DepTargets :
              search' = check_call(task_id, depends_on_id)
       \/ search' = validate_call(tasks)
    /\ UNCHANGED <<tasks, command, outcome, issues, available, recommended,
                   written, disk, llm_calls, previous, call>>

\* the interpreter makes the next step of the call
SearchStep ==
    /\ search # NoSearch
    /\ search.status = "running"
    /\ search' = search_step(search, tasks)
    /\ UNCHANGED <<tasks, command, outcome, issues, available, recommended,
                   written, disk, llm_calls, previous, call>>

\* SpecSearch: one cycle check or one validation pass on any document, step
\* by step; the interpreter does not stop while the call runs
NextSearch == SearchStart \/ SearchStep

SpecSearch == Init /\ [][NextSearch]_vars /\ WF_vars(NextSearch)

\* SpecRank: one task-next, the arbiter failing if it is asked, on a document
\* whose statuses vary, with two dependencies at most, or whose priorities
\* vary, with one dependency at most
Statuses == {"pending", "in-progress", "completed", Missing}
Priorities == {"low", "medium", "high", Missing, Unknown}

RankDocuments ==
    \/ Loaded(Statuses, {"medium"}, 2)
    \/ Loaded({"pending"}, Priorities, 1)

InitRank == RankDocuments /\ Fresh

NextRank == First /\ TaskNext([kind |-> "error", id |-> None])

SpecRank == InitRank /\ [][NextRank]_vars

\* SpecChain: a task-next, or a task-update of a status and a task-next
\* after it, on a document of two dependencies at most whose second task is
\* pending
StatusUpdate ==
    \E task_id_arg \in ArgIds, new_status \in StatusArgs :
        TaskUpdate(task_id_arg, new_status, NoValue, NoValue, NoValue)

SecondPending ==
    \E st \in {f \in [TaskIds -> {"pending", "completed"}] : f[2] = "pending"} :
        \E dp \in DepAssignments(1, 2) :
            /\ disk = DocumentText(Document(st, [i \in TaskIds |-> "medium"], dp))
            /\ tasks = json_load(disk)

InitChain == SecondPending /\ Fresh

NextChain ==
    \/ First /\ StatusUpdate
    \/ previous = NoCommand /\ TaskNext([kind |-> "error", id |-> None])

SpecChain == InitChain /\ [][NextChain]_vars

\* SpecArbiter: one task-next with any reply of the arbiter, on a document
\* of pending and completed tasks of low and high priority with one
\* dependency at most
InitArbiter == Loaded({"pending", "completed"}, {"low", "high"}, 1) /\ Fresh

NextArbiter == First /\ NextCommand

SpecArbiter == InitArbiter /\ [][NextArbiter]_vars

\* SpecSubtasks: one task-next, validation or add on a document of pending
\* and completed tasks with one dependency at most, any of whose tasks may
\* carry subtasks: pending ones, or completed ones of high priority that
\* depend on each other
DoneSubtasks ==
    <<[id |-> "old.1", status |-> "completed", priority |-> "high",
       dependencies |-> <<"old.2">>],
      [id |-> "old.2", status |-> "completed", priority |-> "high",
       dependencies |-> <<"old.1">>]>>

SubtaskChoices == {OldSubtasks, DoneSubtasks}

WithSubtaskLists ==
    \E st \in [TaskIds -> {"pending", "completed"}], given \in SubtaskChoices :
        \E sb \in [TaskIds -> {<<>>, [subtasks |-> given]}] :
            \E dp \in DepAssignments(1, 1) :
                /\ disk = DocumentText([i \in TaskIds |->
                              [Document(st, [j \in TaskIds |-> "medium"], dp)[i]
                                  EXCEPT !.optional = sb[i]]])
                /\ tasks = json_load(disk)

InitSubtasks == WithSubtaskLists /\ Fresh

\* task-deps --add --id X --depends-on Y
DepsAdd ==
    \E task_id, depends_on \in DepTargets :
        TaskDeps(TRUE, FALSE, task_id, depends_on, FALSE)

NextSubtasks ==
    \/ First /\ TaskNext([kind |-> "error", id |-> None])
    \/ First /\ DepsValidate
    \/ First /\ DepsAdd

SpecSubtasks == InitSubtasks /\ [][NextSubtasks]_vars

\* SpecProgress: the user works the project off: task-next, then task-update
\* of the task it displayed to completed, and so on until task-next finds
\* nothing.  The document is well-formed: pending and completed tasks, every
\* dependency the id of a task, no cycle; two dependencies at most with
\* priorities all medium, or one at most with low and high priorities.
InitProgress ==
    /\ \/ Loaded({"pending", "completed"}, {"medium"}, 2)
       \/ Loaded({"pending", "completed"}, {"low", "high"}, 1)
    /\ Acyclic(tasks) /\ NoDangling(tasks)
    /\ Fresh

\* auto-prdgen task-next, when the last command was not one
AskNext ==
    /\ command.name # "task-next"
    /\ TaskNext([kind |-> "error", id |-> None])

\* auto-prdgen task-update --task-id X --status completed, for the task X
\* that task-next has just displayed
CompleteDisplayed ==
    /\ command.name = "task-next" /\ recommended # None
    /\ TaskUpdate(recommended, "completed", NoValue, NoValue, NoValue)

NextProgress == AskNext \/ CompleteDisplayed

\* one of the two commands can be run: ENABLED <<NextProgress>>_vars, both
\* commands changing `command`
ProgressEnabled == command.name # "task-next" \/ recommended # None

\* the user does not stop while there is a command to run: weak fairness of
\* NextProgress, WF_vars(NextProgress), written out
KeepsWorking == []<>(~ProgressEnabled) \/ []<><<NextProgress>>_vars

SpecProgress == InitProgress /\ [][NextProgress]_vars /\ KeepsWorking

\* SpecGenerator: one command that asks the generator (task-init,
\* task-research, task-expand), on a document whose tasks may have subtasks:
\* with one dependency at most and old subtasks or none, or without
\* dependencies and, besides, with an empty "subtasks" list
SubtaskLists(choices, maxEdges) ==
    \E sb \in [TaskIds -> choices] :
        \E dp \in DepAssignments(1, maxEdges) :
            /\ disk = DocumentText([i \in TaskIds |->
                          [Document([j \in TaskIds |-> "pending"],
                                    [j \in TaskIds |-> "medium"], dp)[i]
                              EXCEPT !.optional = sb[i]]])
            /\ tasks = json_load(disk)

InitGenerator ==
    /\ \/ SubtaskLists({<<>>, [subtasks |-> OldSubtasks]}, 1)
       \/ SubtaskLists({<<>>, [subtasks |-> OldSubtasks], [subtasks |-> <<>>]}, 0)
    /\ Fresh

NextGenerator ==
    \/ First /\ InitCommand
    \/ First /\ ResearchCommand
    \/ First /\ ExpandCommand

SpecGenerator == InitGenerator /\ [][NextGenerator]_vars

\* SpecOrder: one task-next on a document whose list is in any order (a
\* hand-edited file, a generator that does not number in list order): the
\* statuses vary, with one dependency at most, or the priorities vary
ListOrders == {order \in [TaskIds -> TaskIds] : \A i, j \in TaskIds : order[i] = order[j] => i = j}

InAnyOrder(statuses, priorities, maxEdges) ==
    \E st \in [TaskIds -> statuses], pr \in [TaskIds -> priorities] :
        \E dp \in DepAssignments(1, maxEdges), order \in ListOrders :
            /\ disk = DocumentText([i \in TaskIds |-> Document(st, pr, dp)[order[i]]])
            /\ tasks = json_load(disk)

InitOrder ==
    /\ \/ InAnyOrder({"pending", "completed"}, {"medium"}, 1)
       \/ InAnyOrder({"pending"}, {"low", "high", Missing, Unknown}, 0)
    /\ Fresh

NextOrder == First /\ TaskNext([kind |-> "error", id |-> None])

SpecOrder == InitOrder /\ [][NextOrder]_vars

\* a handler calls llm_call_with_progress
CallStart ==
    /\ call = NoCall
    /\ \E generator \in Generators : call' = llm_call(generator)
    /\ UNCHANGED <<tasks, command, outcome, issues, available, recommended,
                   written, disk, llm_calls, previous, search>>

\* the main thread makes its next step
MainStep ==
    /\ call # NoCall
    /\ main_can_step(call)
    /\ call' = main_step(call)
    /\ UNCHANGED <<tasks, command, outcome, issues, available, recommended,
                   written, disk, llm_calls, previous, search>>

\* the worker thread makes its next step
WorkerStep ==
    /\ call # NoCall
    /\ is_alive(call)
    /\ call' = make_call(call)
    /\ UNCHANGED <<tasks, command, outcome, issues, available, recommended,
                   written, disk, llm_calls, previous, search>>

\* SpecCall: one call of llm_call_with_progress, the two threads interleaved
\* in every way; both threads get to run, and the generator answers
InitCall == NoDocument /\ Fresh

NextCall == CallStart \/ MainStep \/ WorkerStep

SpecCall ==
    /\ InitCall /\ [][NextCall]_vars
    /\ WF_vars(CallStart) /\ WF_vars(MainStep) /\ WF_vars(WorkerStep)

\* SpecFile: one task-deps add or remove or one task-update with --task-id,
\* on the documents of SpecStore
NextFile ==
    \/ First /\ DepsEdit
    \/ First /\ UpdateFields

SpecFile == InitStore /\ [][NextFile]_vars

-----------------------------------------------------------------------------
(* Vocabulary of the properties *)

\* the dependency list of the task with the given id
Deps(ts, id) == ts[CHOOSE i \in 1..Len(ts) : ts[i].id = id].dependencies

Count(s, x) == Cardinality({i \in 1..Len(s) : s[i] = x})

TotalEdges(ts) ==
    Cardinality({<<i, k>> \in (1..Len(ts)) \X (1..(MaxEdges + 2)) :
                    k <= Len(ts[i].dependencies)})

RECURSIVE Without(_, _)
\* the list s without any occurrence of x, the rest in its order
Without(s, x) ==
    IF s = <<>> THEN <<>>
    ELSE (IF Head(s) = x THEN <<>> ELSE <<Head(s)>>) \o Without(Tail(s), x)

\* the command c, run on the document ts, calls add_task_dependency
AddCalled(c, ts) ==
    /\ c.name = "task-deps" /\ ~c.validate
    /\ c.task_id \in Ids(ts)
    /\ c.add_dep /\ Truthy(c.depends_on)

\* the command c, run on the document ts, calls remove_task_dependency
RemoveCalled(c, ts) ==
    /\ c.name = "task-deps" /\ ~c.validate
    /\ c.task_id \in Ids(ts)
    /\ ~(c.add_dep /\ Truthy(c.depends_on))
    /\ c.remove_dep /\ Truthy(c.depends_on)

Unchanged == tasks' = tasks /\ ~written'

-----------------------------------------------------------------------------
(* C1: a command of any kind (task-deps add or remove, task-update,        *)
(* task-next; accepted or rejected) run on a document whose dependency     *)
(* graph has no cycle leaves a document whose graph has no cycle.          *)
C1_AcyclicityPreserved == [][Acyclic(tasks) => Acyclic(tasks')]_vars

\* an accepted add that put a second edge into a graph that is still acyclic
C1_Witness ==
    /\ AddCalled(command, tasks) /\ outcome = "DEPENDENCY_ADDED"
    /\ Acyclic(tasks) /\ Cardinality(Edges(tasks)) >= 2

(* C2: add_task_dependency(T, D) for two different tasks T and D of the    *)
(* document, with a path of dependency edges already leading from D to T,  *)
(* reports CIRCULAR_DEPENDENCY_ERROR and leaves the document as it was.    *)
C2_CycleRejection ==
    [][(/\ AddCalled(command', tasks)
        /\ command'.task_id # command'.depends_on
        /\ command'.depends_on \in Ids(tasks)
        /\ Path(tasks, command'.depends_on, command'.task_id))
       => (outcome' = "CIRCULAR_DEPENDENCY_ERROR" /\ Unchanged)]_vars

\* a rejected add whose cycle would run over more than one existing edge
C2_Witness ==
    /\ AddCalled(command, tasks) /\ outcome = "CIRCULAR_DEPENDENCY_ERROR"
    /\ command.task_id # command.depends_on
    /\ Path(tasks, command.depends_on, command.task_id)
    /\ <<command.depends_on, command.task_id>> \notin Edges(tasks)

\* task-deps --add --id X --depends-on X
SelfAdd(c) ==
    /\ c.name = "task-deps" /\ ~c.validate /\ c.add_dep
    /\ c.task_id # None /\ c.depends_on = c.task_id

(* C3 as stated: task-deps --add with --id X and --depends-on X reports    *)
(* SELF_DEPENDENCY_ERROR for every X, also for an X that is no task of the *)
(* document.                                                               *)
C3_Original ==
    [][SelfAdd(command') => outcome' = "SELF_DEPENDENCY_ERROR"]_vars

(* C3: add_task_dependency called for a task X with depends_on_id = X      *)
(* reports SELF_DEPENDENCY_ERROR and changes nothing; for an X that is no  *)
(* task of the document the command reports that task X was not found and  *)
(* changes nothing.                                                        *)
C3_SelfDependency ==
    [][SelfAdd(command') =>
         /\ AddCalled(command', tasks) =>
                (outcome' = "SELF_DEPENDENCY_ERROR" /\ Unchanged)
         /\ command'.task_id \notin Ids(tasks) =>
                (outcome' = "TASK_NOT_FOUND" /\ Unchanged)]_vars

\* a self-dependency asked for on an existing task and rejected as such
C3_Witness ==
    /\ SelfAdd(command) /\ AddCalled(command, tasks)
    /\ outcome = "SELF_DEPENDENCY_ERROR"

(* C4: add_task_dependency(T, D) for a task T of the document and an id    *)
(* D # T that no task of the document has reports INVALID_DEPENDENCY_ERROR *)
(* (not a circular dependency, not success) and changes nothing, whatever  *)
(* the dependency lists already hold.                                      *)
C4_UnknownDependency ==
    [][(/\ AddCalled(command', tasks)
        /\ command'.depends_on # command'.task_id
        /\ command'.depends_on \notin Ids(tasks))
       => (outcome' = "INVALID_DEPENDENCY_ERROR" /\ Unchanged)]_vars

\* an unknown dependency rejected on a task whose list already holds that id
C4_Witness ==
    /\ AddCalled(command, tasks) /\ outcome = "INVALID_DEPENDENCY_ERROR"
    /\ command.depends_on \notin Ids(tasks)
    /\ Contains(Deps(tasks, command.task_id), command.depends_on)

(* C5: after add_task_dependency(A, B) has added B, the same call again    *)
(* reports that A already depends on B, which is no error, and leaves the  *)
(* document as the first call left it, with B in A's list exactly once;    *)
(* and add_task_dependency never turns a document whose lists have no      *)
(* duplicates into one that has.                                           *)
C5_IdempotentAdd ==
    [][/\ (/\ outcome = "DEPENDENCY_ADDED"
           /\ AddCalled(command, tasks) /\ AddCalled(command', tasks)
           /\ command'.task_id = command.task_id
           /\ command'.depends_on = command.depends_on)
          => /\ outcome' = "ALREADY_DEPENDS" /\ Unchanged
             /\ Count(Deps(tasks', command.task_id), command.depends_on) = 1
       /\ (AddCalled(command', tasks) /\ NoDuplicates(tasks))
          => NoDuplicates(tasks')]_vars

\* the second of two equal adds: the document has one entry more than any
\* document on disk has, and the call found the dependency present
C5_Witness ==
    /\ AddCalled(command, tasks) /\ outcome = "ALREADY_DEPENDS"
    /\ TotalEdges(tasks) = MaxEdges + 1
    /\ Count(Deps(tasks, command.task_id), command.depends_on) = 1

(* C6 as stated: remove_task_dependency(T, D) leaves T's list without any  *)
(* occurrence of D, the other entries in their order, whatever the list    *)
(* held (D several times included), changes no other task, and reports     *)
(* that T does not depend on D, changing nothing, when D was not in it.    *)
C6_Original ==
    [][RemoveCalled(command', tasks) =>
         LET T == command'.task_id
             D == command'.depends_on
         IN  /\ Deps(tasks', T) = Without(Deps(tasks, T), D)
             /\ \A id \in Ids(tasks) \ {T} : Deps(tasks', id) = Deps(tasks, id)
             /\ ~Contains(Deps(tasks, T), D)
                   => (outcome' = "DOES_NOT_DEPEND" /\ Unchanged)]_vars

-----------------------------------------------------------------------------
\* the tasks of the document that are pending and whose every dependency is
\* the id of a completed task of the document
AvailableSet(ts) ==
    {ts[i] : i \in {j \in 1..Len(ts) :
        /\ ts[j].status = "pending"
        /\ \A d \in Range(ts[j].dependencies) :
               \E k \in 1..Len(ts) : ts[k].id = d /\ ts[k].status = "completed"}}

(* C7: the tasks task-next gets from find_next_available_task are exactly  *)
(* the pending tasks whose every dependency is the id of a completed task  *)
(* of the document, each of them once: a pending task without dependencies *)
(* is among them, a pending task with a dependency that is not completed   *)
(* or not in the document is not, and no task that is not pending is.      *)
C7_Availability ==
    command.name = "task-next" =>
        /\ Range(available) = AvailableSet(tasks)
        /\ Len(available) = Cardinality(AvailableSet(tasks))

\* task-next found a task with a dependency available, and left out a
\* pending task whose dependency is missing from the document
C7_Witness ==
    /\ command.name = "task-next"
    /\ \E i \in 1..Len(available) : available[i].dependencies # <<>>
    /\ \E i \in 1..Len(tasks) :
           /\ tasks[i].status = "pending"
           /\ \E d \in Range(tasks[i].dependencies) : d \notin Ids(tasks)
           /\ tasks[i] \notin Range(available)

\* high=3, medium=2, low=1; a missing or unlisted priority ranks as medium
Rank(t) ==
    IF t.priority = "high" THEN 3 ELSE IF t.priority = "low" THEN 1 ELSE 2

\* 1 low, 2 high, 3 high, all pending, no dependencies
RankExample(ts) ==
    /\ Len(ts) = 3
    /\ \A i \in 1..3 : ts[i].id = i /\ ts[i].status = "pending"
                       /\ ts[i].dependencies = <<>>
    /\ ts[1].priority = "low" /\ ts[2].priority = "high" /\ ts[3].priority = "high"

(* C8: the sequence task-next gets from find_next_available_task is sorted *)
(* by priority rank descending (high=3, medium=2, low=1, a missing or      *)
(* unlisted priority 2) and, among equal ranks, by id descending; for      *)
(* tasks 1 low, 2 high, 3 high, all pending without dependencies, it is    *)
(* 3, 2, 1.                                                                *)
C8_Ranking ==
    command.name = "task-next" =>
        /\ \A i, j \in 1..Len(available) :
               i < j => \/ Rank(available[i]) > Rank(available[j])
                        \/ /\ Rank(available[i]) = Rank(available[j])
                           /\ available[i].id > available[j].id
        /\ RankExample(tasks) => [i \in 1..3 |-> available[i].id] = <<3, 2, 1>>

\* task-next ranked the example: 1 low, 2 high, 3 high gave 3, 2, 1
C8_Witness ==
    /\ command.name = "task-next" /\ RankExample(tasks)
    /\ Len(available) = 3
    /\ available[1].id = 3 /\ available[2].id = 2 /\ available[3].id = 1

-----------------------------------------------------------------------------
\* the document's only defect is one dependency entry naming no task
OnlyOneDangling(ts, t, d) ==
    /\ d \notin Ids(ts)
    /\ Deps(ts, t) = <<d>>
    /\ \A id \in Ids(ts) \ {t} : Deps(ts, id) = <<>>

(* C9 as stated: task-deps --validate on a document whose only defect is   *)
(* one dependency entry d, of task t, that names no task reports the one   *)
(* issue DanglingReference(t, d) and nothing else.                         *)
C9_Original ==
    (command.name = "task-deps" /\ command.validate) =>
        \A t \in Ids(tasks), d \in DepTargets :
            OnlyOneDangling(tasks, t, d) =>
                issues = <<Issue("DanglingReference", t, d)>>

(* C10 as stated: task-deps --validate reports CycleInvolving(t) once for  *)
(* every task t that lies on a cycle of dependency edges and not at all    *)
(* for any other task.                                                     *)
C10_Original ==
    (command.name = "task-deps" /\ command.validate) =>
        \A t \in Ids(tasks) :
            Count(issues, Issue("CycleInvolving", t, t))
                = IF Path(tasks, t, t) THEN 1 ELSE 0

-----------------------------------------------------------------------------
(* C11: the issue list of task-deps --validate holds, for every task t and *)
(* every entry d of t's dependency list that names no task of the          *)
(* document, the issue DanglingReference(t, d), and for every task t whose *)
(* list holds its own id the issue SelfDependency(t), however many other   *)
(* issues the document has.                                                *)
C11_AllIssuesListed ==
    (command.name = "task-deps" /\ command.validate) =>
        \A i \in 1..Len(tasks) : \A d \in Range(tasks[i].dependencies) :
            /\ d \notin Ids(tasks) =>
                   Contains(issues, Issue("DanglingReference", tasks[i].id, d))
            /\ d = tasks[i].id =>
                   Contains(issues, Issue("SelfDependency", tasks[i].id, d))

\* a validation that listed two reference issues of one task, a dangling
\* reference first and a self-dependency after it
C11_Witness ==
    /\ command.name = "task-deps" /\ command.validate
    /\ \E i \in 1..Len(tasks) :
           /\ Len(tasks[i].dependencies) = 2
           /\ tasks[i].dependencies[1] \notin Ids(tasks)
           /\ tasks[i].dependencies[2] = tasks[i].id
           /\ Contains(issues, Issue("DanglingReference", tasks[i].id,
                                     tasks[i].dependencies[1]))
           /\ Contains(issues, Issue("SelfDependency", tasks[i].id, tasks[i].id))

-----------------------------------------------------------------------------
SearchReturned == search # NoSearch /\ search.status = "returned"

\* the call has given visited.add no id twice, and when it has returned
\* its result is that of the functions above
SearchSound ==
    search # NoSearch =>
        /\ \A a, b \in 1..Len(search.expanded) :
               search.expanded[a] = search.expanded[b] => a = b
        /\ (search.status = "returned" /\ search.call = "check") =>
               search.found = would_create_circular_dependency(
                                  search.task_id, search.depends_on_id, tasks)
        /\ (search.status = "returned" /\ search.call = "validate") =>
               search.issues = validate_all_dependencies(tasks)

(* C12: every call of would_create_circular_dependency and every           *)
(* validation pass, on every document (with cycles, self-dependencies and  *)
(* dangling references too), returns a result: it neither runs for ever    *)
(* nor exhausts the stack; and no call of the cycle check expands an id    *)
(* more than once.                                                         *)
C12_Termination == []SearchSound /\ <>SearchReturned

\* a cycle check that returned False after it came back to an id it had
\* expanded: the document has a cycle through that id
C12_Witness ==
    /\ SearchReturned /\ search.call = "check" /\ ~search.found
    /\ \E x \in Range(search.expanded) : Path(tasks, x, x)

-----------------------------------------------------------------------------
UpdateFieldNames == {"status", "priority", "description", "details"}

\* every task of the document has a status and a priority
HasStatusAndPriority(ts) ==
    \A i \in 1..Len(ts) : ts[i].status # Missing /\ ts[i].priority # Missing

\* the position of the task with the given id
IndexOf(ts, id) == CHOOSE i \in 1..Len(ts) : ts[i].id = id

(* C13: task-update for a task of the document leaves every other task as  *)
(* it was, and of its own task the id, the dependencies, the optional      *)
(* members (subtasks among them) and every one of status, priority,        *)
(* description and details that the command line does not give; a field    *)
(* given with a non-empty value has that value afterwards (in a document   *)
(* whose tasks all have a status and a priority), and the file holds the   *)
(* document so changed.                                                    *)
C13_UpdateFrame ==
    [][(command'.name = "task-update" /\ command'.task_id \in Ids(tasks)) =>
         LET ix == IndexOf(tasks, command'.task_id)
         IN  /\ Len(tasks') = Len(tasks)
             /\ \A i \in 1..Len(tasks) : i # ix => tasks'[i] = tasks[i]
             /\ tasks'[ix].id = tasks[ix].id
             /\ tasks'[ix].dependencies = tasks[ix].dependencies
             /\ tasks'[ix].optional = tasks[ix].optional
             /\ \A f \in UpdateFieldNames :
                    /\ command'[f] = NoValue => tasks'[ix][f] = tasks[ix][f]
                    /\ (HasStatusAndPriority(tasks) /\ TruthyStr(command'[f]))
                           => tasks'[ix][f] = command'[f]
             /\ json_load(disk') = tasks']_vars

\* an update that gave a status and no description to a task that another
\* task depends on and that has subtasks
C13_Witness ==
    /\ command.name = "task-update" /\ outcome = "TASK_UPDATED_SUCCESS"
    /\ command.status = "completed" /\ command.description = NoValue
    /\ \E i \in 1..Len(tasks) :
           /\ tasks[i].id = command.task_id
           /\ tasks[i].status = "completed"
           /\ tasks[i].description = "description"
           /\ "subtasks" \in DOMAIN tasks[i].optional
    /\ \E j \in 1..Len(tasks) : Contains(tasks[j].dependencies, command.task_id)

-----------------------------------------------------------------------------
\* the command c addresses, with --id or --task-id, a task the document ts
\* does not have
AddressesUnknownTask(c, ts) ==
    /\ \/ c.name = "task-deps" /\ ~c.validate
       \/ c.name = "task-update"
       \/ c.name = "task-expand"
    /\ c.task_id # None /\ c.task_id \notin Ids(ts)

\* nothing changed in memory, nothing was written, the file is as it was
NothingChanged == tasks' = tasks /\ ~written' /\ disk' = disk

(* C14: a rejected operation changes nothing, in memory or in the file:    *)
(* add_task_dependency(T, D) with D = T (self-dependency), with D no task  *)
(* of the document (unknown task) or with a path from D to T (circular     *)
(* dependency), and task-deps, task-update and task-expand naming a task   *)
(* id the document does not have (task not found; task-expand then does    *)
(* not call the generator either).                                         *)
C14_RejectedChangesNothing ==
    [][LET c == command'
           T == c.task_id
           D == c.depends_on
       IN  /\ (AddCalled(c, tasks) /\ D = T)
                  => (outcome' = "SELF_DEPENDENCY_ERROR" /\ NothingChanged)
           /\ (AddCalled(c, tasks) /\ D # T /\ D \notin Ids(tasks))
                  => (outcome' = "INVALID_DEPENDENCY_ERROR" /\ NothingChanged)
           /\ (AddCalled(c, tasks) /\ D # T /\ D \in Ids(tasks) /\ Path(tasks, D, T))
                  => (outcome' = "CIRCULAR_DEPENDENCY_ERROR" /\ NothingChanged)
           /\ AddressesUnknownTask(c, tasks)
                  => /\ NothingChanged /\ llm_calls' = 0
                     /\ \/ outcome' = "TASK_NOT_FOUND"
                        \/ /\ c.name = "task-update" /\ ~HasStatusAndPriority(tasks)
                           /\ outcome' = "KeyError"]_vars

\* a task-expand for a task the document does not have: the generator,
\* which would have delivered subtasks, was not called
C14_Witness ==
    /\ command.name = "task-expand" /\ command.task_id \notin Ids(tasks)
    /\ command.reply.kind = "object" /\ command.force
    /\ outcome = "TASK_NOT_FOUND" /\ ~written /\ llm_calls = 0
    /\ json_load(disk) = tasks

-----------------------------------------------------------------------------
HasKey(object, key) == \E m \in 1..Len(object) : object[m][1] = key

\* the command was a task-init or task-research whose generator proposed tasks
Imported(c) == c.name \in {"task-init", "task-research"} /\ c.reply.kind = "tasks"

(* C15 as stated: when the candidate list of a task-init or task-research  *)
(* holds an object without an "id" the import fails with MalformedRecord   *)
(* and no object without an "id" is in the file afterwards; a list whose   *)
(* objects lack optional members only is saved as it is.                   *)
C15_Original ==
    Imported(command) =>
        IF \E i \in 1..Len(command.reply.tasks) : ~HasKey(command.reply.tasks[i], "id")
        THEN /\ outcome = "MalformedRecord"
             /\ \A i \in 1..Len(disk) : HasKey(disk[i], "id")
        ELSE written /\ disk = command.reply.tasks

-----------------------------------------------------------------------------
(* C16: a task-deps or task-update command, accepted or rejected, run on a *)
(* document in which every dependency entry is the id of a task leaves a   *)
(* document in which every dependency entry is the id of a task, with the  *)
(* same tasks; the step is inductive, so the same holds after any sequence *)
(* of such commands.                                                       *)
C16_ReferentialIntegrity ==
    [][(NoDangling(tasks) /\ command'.name \in {"task-deps", "task-update"})
       => (NoDangling(tasks') /\ Ids(tasks') = Ids(tasks)
           /\ Len(tasks') = Len(tasks))]_vars

\* an accepted add that gave a document without dangling entries one entry
\* more than any document on disk has
C16_Witness ==
    /\ AddCalled(command, tasks) /\ outcome = "DEPENDENCY_ADDED"
    /\ NoDangling(tasks) /\ TotalEdges(tasks) = MaxEdges + 1
    /\ json_load(disk) = tasks

-----------------------------------------------------------------------------
\* the optional members of a task object of the file, by key
OptionalMembers(object) ==
    [key \in {object[m][1] : m \in 1..Len(object)} \cap OptionalKeys |->
        json_load_object(object)[key]]

\* the command line gives task-update none of its four fields
NoFieldGiven(c) == \A f \in UpdateFieldNames : c[f] = NoValue

(* C17: a task-deps or task-update command leaves in the file, for every   *)
(* task, exactly the optional members (complexity_score,                   *)
(* complexity_factors, estimated_effort, subtasks) the file had for it,    *)
(* with their values; and a task-update that is given no field, which      *)
(* loads the document and saves it without a change, writes the file as it *)
(* was.                                                                    *)
C17_RoundTrip ==
    [][command'.name \in {"task-deps", "task-update"} =>
         /\ Len(disk') = Len(disk)
         /\ \A i \in 1..Len(disk) :
                OptionalMembers(disk'[i]) = OptionalMembers(disk[i])
         /\ (command'.name = "task-update" /\ NoFieldGiven(command')
             /\ outcome' = "TASK_UPDATED_SUCCESS")
                => (written' /\ disk' = disk)]_vars

\* a task-update without fields rewrote a file in which one task has the
\* optional members and another has none
C17_Witness ==
    /\ command.name = "task-update" /\ NoFieldGiven(command)
    /\ outcome = "TASK_UPDATED_SUCCESS" /\ written
    /\ \E i, j \in 1..Len(disk) :
           /\ DOMAIN OptionalMembers(disk[i]) = OptionalKeys
           /\ OptionalMembers(disk[i]).complexity_score = 7
           /\ OptionalMembers(disk[i]).subtasks = OldSubtasks
           /\ DOMAIN OptionalMembers(disk[j]) = {}

-----------------------------------------------------------------------------
AvailableIds(ts) == {t.id : t \in AvailableSet(ts)}

(* C18: task-next with no available task displays none and does not call   *)
(* the arbiter; with one available task it displays that task and does not *)
(* call the arbiter; with several it calls the arbiter once and displays   *)
(* the task the reply names if that is the id of an available task, and    *)
(* otherwise (the call fails, the reply is not JSON, it names no id or an  *)
(* id that is not available) the first task of find_next_available_task's  *)
(* ordering.  The task displayed is always an available one.               *)
C18_SelectionProtocol ==
    command.name = "task-next" =>
        LET n == Cardinality(AvailableSet(tasks))
            reply == command.reply
        IN  /\ n = 0 => (recommended = None /\ llm_calls = 0)
            /\ n = 1 => (AvailableIds(tasks) = {recommended} /\ llm_calls = 0)
            /\ n > 1 =>
                  /\ llm_calls = 1
                  /\ recommended =
                        IF reply.kind = "id" /\ reply.id \in AvailableIds(tasks)
                        THEN reply.id ELSE available[1].id
            /\ recommended # None => recommended \in AvailableIds(tasks)

\* the arbiter named a task of the document that is not available, and
\* task-next displayed the first of the ordering instead
C18_Witness ==
    /\ command.name = "task-next" /\ outcome = "DEFAULT_TO_HIGHEST"
    /\ command.reply.kind = "id" /\ command.reply.id \in Ids(tasks)
    /\ command.reply.id \notin AvailableIds(tasks)
    /\ Len(available) > 1 /\ recommended = available[1].id /\ llm_calls = 1

-----------------------------------------------------------------------------
(* C19: add_task_dependency(T, D) for two different tasks T and D of the   *)
(* document, with no path of dependency edges from D to T, is accepted,    *)
(* whatever cycles the document has elsewhere: if D is not in T's list it  *)
(* is appended as the last entry and the document is written, and if it is *)
(* the call reports that T already depends on D and changes nothing.       *)
C19_NoFalseRejection ==
    [][LET T == command'.task_id
           D == command'.depends_on
       IN  (/\ AddCalled(command', tasks)
            /\ T # D /\ D \in Ids(tasks)
            /\ ~Path(tasks, D, T))
           => IF Contains(Deps(tasks, T), D)
              THEN outcome' = "ALREADY_DEPENDS" /\ Unchanged
              ELSE /\ outcome' = "DEPENDENCY_ADDED" /\ written'
                   /\ Deps(tasks', T) = Append(Deps(tasks, T), D)
                   /\ \A id \in Ids(tasks) \ {T} :
                          Deps(tasks', id) = Deps(tasks, id)]_vars

\* an accepted add of a dependency that lies on a cycle of two tasks: the
\* search from it came back to an id it had visited
C19_Witness ==
    /\ AddCalled(command, tasks) /\ outcome = "DEPENDENCY_ADDED"
    /\ Path(tasks, command.depends_on, command.depends_on)
    /\ <<command.depends_on, command.depends_on>> \notin Edges(tasks)
    /\ Deps(tasks, command.task_id)[Len(Deps(tasks, command.task_id))]
           = command.depends_on

-----------------------------------------------------------------------------
\* three tasks: 1 with the given status and no dependency, 2 with the given
\* status depending on 1, 3 pending depending on 2
Chain(ts, status1, status2) ==
    /\ Len(ts) = 3
    /\ \A i \in 1..3 : ts[i].id = i
    /\ ts[1].status = status1 /\ ts[2].status = status2 /\ ts[3].status = "pending"
    /\ ts[1].dependencies = <<>>
    /\ ts[2].dependencies = <<1>>
    /\ ts[3].dependencies = <<2>>

AvailableIdList == [i \in 1..Len(available) |-> available[i].id]

\* task-update --task-id 2 --status completed
Completes2(c) == c.name = "task-update" /\ c.task_id = 2 /\ c.status = "completed"

(* C20: on the document of three tasks in which task 1 is completed, task  *)
(* 2 is pending and depends on task 1 and task 3 is pending and depends on *)
(* task 2, task-next finds exactly task 2 available; task-update of task 2 *)
(* to completed changes that status and nothing else, and task-next after  *)
(* it finds exactly task 3 available.                                      *)
C20_ChainScenario ==
    [][/\ (Chain(tasks, "completed", "pending") /\ command'.name = "task-next")
          => AvailableIdList' = <<2>>
       /\ (Chain(tasks, "completed", "pending") /\ Completes2(command'))
          => (Chain(tasks', "completed", "completed") /\ written')
       /\ (/\ Completes2(command) /\ Chain(tasks, "completed", "completed")
           /\ command'.name = "task-next")
          => AvailableIdList' = <<3>>]_vars

\* task-next after task 2 of the chain was set to completed found task 3
C20_Witness ==
    /\ command.name = "task-next" /\ Completes2(previous)
    /\ Chain(tasks, "completed", "completed")
    /\ AvailableIdList = <<3>> /\ recommended = 3

-----------------------------------------------------------------------------
\* the command c only asks: task-deps --validate or task-next
IsQuery(c) == c.name = "task-next" \/ (c.name = "task-deps" /\ c.validate)

(* C21: task-deps --validate and task-next change nothing: the document in *)
(* memory is afterwards the one that was loaded, task for task in the      *)
(* order of the list (no violation repaired, no task moved by the sorting  *)
(* of the available tasks), and tasks.json is not written.                 *)
C21_QueriesReadOnly ==
    [][IsQuery(command') => (tasks' = tasks /\ ~written' /\ disk' = disk)]_vars

\* a task-next whose ordering of the available tasks is not the order of the
\* list, on a document with a dangling entry: both are as they were loaded
C21_Witness ==
    /\ command.name = "task-next" /\ ~written
    /\ AvailableIdList = <<3, 2>>
    /\ [i \in 1..Len(tasks) |-> tasks[i].id] = <<1, 2, 3>>
    /\ ~NoDangling(tasks) /\ json_load(disk) = tasks

-----------------------------------------------------------------------------
\* what add_task_dependency does when the command c calls it on the document
\* ts: its message, the document it leaves and whether it wrote tasks.json
AddResult(c, ts) == add_task_dependency(task_map(ts)[c.task_id], c.depends_on, ts)

(* C22 as stated: a successful add_task_dependency changes the document in *)
(* memory only and writes nothing itself; the file is written by its       *)
(* caller after it has returned.                                           *)
C22_Original ==
    [][(AddCalled(command', tasks) /\ outcome' = "DEPENDENCY_ADDED")
       => (/\ tasks' = AddResult(command', tasks).tasks
           /\ ~AddResult(command', tasks).written
           /\ written')]_vars

(* C22: add_task_dependency writes tasks.json itself, exactly when it has  *)
(* appended the dependency: the file then holds the document with the new  *)
(* entry; its caller handle_task_dependencies writes nothing of its own,   *)
(* so the command has written the file exactly when the function has, and  *)
(* after a rejected or repeated add the file is as it was.                 *)
C22_AddWritesItself ==
    [][AddCalled(command', tasks) =>
         LET r == AddResult(command', tasks)
         IN  /\ r.written = (outcome' = "DEPENDENCY_ADDED")
             /\ written' = r.written /\ tasks' = r.tasks
             /\ r.written => (json_load(disk') = r.tasks /\ disk' # disk)
             /\ ~r.written => disk' = disk]_vars

\* a successful add: the file holds the new entry when the command returns
C22_Witness ==
    /\ AddCalled(command, tasks) /\ outcome = "DEPENDENCY_ADDED" /\ written
    /\ \E i \in 1..Len(disk) :
           /\ json_load_object(disk[i]).id = command.task_id
           /\ Contains(json_load_object(disk[i]).dependencies, command.depends_on)

-----------------------------------------------------------------------------
\* the document without the subtasks of any task
WithoutSubtasks(ts) ==
    [i \in 1..Len(ts) |->
        [ts[i] EXCEPT !.optional = [key \in DOMAIN @ \ {"subtasks"} |-> @[key]]]]

IdList(list) == [i \in 1..Len(list) |-> list[i].id]

DepLists(ts) == [i \in 1..Len(ts) |-> ts[i].dependencies]

(* C23: what task-next finds available (ids, in order) and displays, what  *)
(* task-deps --validate lists and what task-deps --add reports and does to *)
(* the dependency lists are, on every document, what the same command      *)
(* finds, lists, reports and does on that document with all subtasks taken *)
(* out.  Two documents that differ only in their subtasks are the same     *)
(* document once the subtasks are taken out, so they get the same results. *)
C23_SubtasksOpaque ==
    [][LET c == command'
           bare == WithoutSubtasks(tasks)
       IN  /\ c.name = "task-next" =>
                 /\ AvailableIdList' = IdList(find_next_available_task(bare))
                 /\ recommended' = handle_task_next(bare, c.reply).recommended
                 /\ outcome' = handle_task_next(bare, c.reply).outcome
           /\ (c.name = "task-deps" /\ c.validate) =>
                 issues' = validate_all_dependencies(bare)
           /\ (c.name = "task-deps" /\ ~c.validate) =>
                 LET r == handle_task_dependencies(bare, c.add_dep, c.remove_dep,
                                                   c.task_id, c.depends_on, FALSE)
                 IN  /\ outcome' = r.outcome /\ written' = r.written
                     /\ DepLists(tasks') = DepLists(r.tasks)]_vars

\* task-next found two tasks available, one of them with pending subtasks,
\* while a third task has completed subtasks
C23_Witness ==
    /\ command.name = "task-next" /\ Len(available) = 2
    /\ \E i \in 1..2 : /\ "subtasks" \in DOMAIN available[i].optional
                       /\ available[i].optional.subtasks[1].status = "pending"
    /\ \E i \in 1..2 : available[i].optional = <<>>
    /\ WithoutSubtasks(tasks) # tasks

-----------------------------------------------------------------------------
\* every dependency of the task is the id of a completed task of the document
DependenciesCompleted(t, ts) ==
    \A d \in Range(t.dependencies) :
        \E k \in 1..Len(ts) : ts[k].id = d /\ ts[k].status = "completed"

(* C24 as stated: a task whose JSON object has no "status" counts as       *)
(* pending: task-next finds it available whenever every one of its         *)
(* dependencies is completed.                                              *)
C24_Original ==
    command.name = "task-next" =>
        \A i \in 1..Len(tasks) :
            (tasks[i].status = Missing /\ DependenciesCompleted(tasks[i], tasks))
                => tasks[i].id \in Range(AvailableIdList)

-----------------------------------------------------------------------------
SomePending(ts) == \E i \in 1..Len(ts) : ts[i].status = "pending"

AllCompleted(ts) == \A i \in 1..Len(ts) : ts[i].status = "completed"

\* the document stays well-formed, and task-next on it finds a task
\* available whenever one is pending
ProgressPossible ==
    /\ Acyclic(tasks) /\ NoDangling(tasks)
    /\ \A i \in 1..Len(tasks) : tasks[i].status \in {"pending", "completed"}
    /\ (command.name = "task-next" /\ SomePending(tasks)) => available # <<>>
    /\ SomePending(tasks) => find_next_available_task(tasks) # <<>>

\* task-next finds nothing any more: every task is completed
WorkedOff ==
    command.name = "task-next" /\ available = <<>> /\ AllCompleted(tasks)

(* C25: on a document that has no cycle and no dangling dependency and     *)
(* whose tasks are all pending or completed, find_next_available_task      *)
(* gives a task whenever a task is pending; and a user who keeps running   *)
(* task-next and setting the first task of its ordering to completed       *)
(* reaches a document in which every task is completed and task-next finds *)
(* none available.                                                         *)
C25_NoDeadlock == []ProgressPossible /\ <>WorkedOff

\* the last task-next of a project of three pending tasks, each depending
\* on the one before: three updates have completed them in turn
C25_Witness ==
    /\ WorkedOff /\ previous.name = "task-update" /\ previous.task_id = 3
    /\ DepLists(tasks) = <<(<<>>), <<1>>, <<2>>>>
    /\ json_load(disk) = tasks

-----------------------------------------------------------------------------
\* the command c is a task-deps add or remove or a task-update
IsEdit(c) == (c.name = "task-deps" /\ ~c.validate) \/ c.name = "task-update"

(* C26: when a task-deps add or remove or a task-update with --task-id has *)
(* returned (it did not end in an exception), tasks.json holds the         *)
(* document as it is in memory: a command that changed the document has    *)
(* written the file, and a command that wrote nothing has left the         *)
(* document and the file as they were loaded.                              *)
C26_FileTracksMemory ==
    [][(IsEdit(command') /\ outcome' # "KeyError") =>
         /\ json_load(disk') = tasks'
         /\ tasks' # tasks => written'
         /\ ~written' => (tasks' = tasks /\ disk' = disk)]_vars

\* a remove took the only dependency off a document in which a task lacks
\* its status and a task has the optional members: the file holds the result
C26_Witness ==
    /\ RemoveCalled(command, tasks) /\ outcome = "DEPENDENCY_REMOVED" /\ written
    /\ TotalEdges(tasks) = 0 /\ ~HasStatusAndPriority(tasks)
    /\ \E i \in 1..Len(tasks) : DOMAIN tasks[i].optional = OptionalKeys
    /\ json_load(disk) = tasks

-----------------------------------------------------------------------------
\* the command c asks the generator
AsksGenerator(c) == c.name \in {"task-init", "task-research", "task-expand"}

\* the generator's call failed or its reply is not JSON
Unusable(reply) == reply.kind \in {"error", "badjson"}

\* the task object of the file has a "subtasks" member that is not empty
HasSubtasks(object) ==
    /\ "subtasks" \in DOMAIN OptionalMembers(object)
    /\ OptionalMembers(object).subtasks # <<>>

(* C27: a task-init, task-research or task-expand whose generator call     *)
(* fails or whose reply is not JSON writes nothing: tasks.json is          *)
(* afterwards, member for member, what it was; and a task-expand without   *)
(* --force, whatever the generator would reply, leaves every "subtasks"    *)
(* list of the file that is not empty as it was.                           *)
C27_UnusableReplyHarmless ==
    [][AsksGenerator(command') =>
         /\ Unusable(command'.reply) =>
                (disk' = disk /\ ~written' /\ tasks' = tasks)
         /\ (command'.name = "task-expand" /\ ~command'.force) =>
                /\ Len(disk') = Len(disk)
                /\ \A i \in 1..Len(disk) :
                       HasSubtasks(disk[i]) =>
                           OptionalMembers(disk'[i]).subtasks
                               = OptionalMembers(disk[i]).subtasks]_vars

\* a task-research on a document with subtasks asked the generator and got
\* a reply that is not JSON: the file still has the subtasks
C27_Witness ==
    /\ command.name = "task-research" /\ command.reply.kind = "badjson"
    /\ outcome = "INVALID_JSON" /\ llm_calls = 1 /\ ~written
    /\ Len(disk) = NumTasks /\ \E i \in 1..Len(disk) : HasSubtasks(disk[i])
    /\ json_load(disk) = tasks

-----------------------------------------------------------------------------
\* the list ts put into the given order
Reordered(ts, order) == [i \in 1..Len(ts) |-> ts[order[i]]]

(* C28: what task-next gets from find_next_available_task for a document   *)
(* whose tasks have different ids is, as a sequence of ids, what it gets   *)
(* for the same tasks listed in any other order.                           *)
C28_OrderIndependent ==
    command.name = "task-next" =>
        \A order \in ListOrders :
            IdList(find_next_available_task(Reordered(tasks, order)))
                = AvailableIdList

\* a task-next on a list that is in neither ascending nor descending order
\* of ids found all three tasks, which have one priority rank
C28_Witness ==
    /\ command.name = "task-next"
    /\ IdList(tasks) = <<2, 3, 1>> /\ AvailableIdList = <<3, 2, 1>>
    /\ tasks[1].priority = Unknown /\ tasks[2].priority = Missing

-----------------------------------------------------------------------------
\* the document ts with D taken out of the dependency list of task T
WithoutDependency(ts, T, D) ==
    WithDependencies(ts, IndexOf(ts, T), Without(Deps(ts, T), D))

(* C29: add_task_dependency(T, D) succeeds only when T's list does not     *)
(* hold D, and the document it leaves is, D taken out of T's list again,   *)
(* the document it found; remove_task_dependency(T, D) called next leaves  *)
(* the document with D taken out of T's list, which is therefore the       *)
(* document before the add: every task's dependency list, in order, and    *)
(* every other field; and the file holds that document.                    *)
C29_AddThenRemove ==
    [][LET T == command'.task_id
           D == command'.depends_on
       IN  /\ (AddCalled(command', tasks) /\ outcome' = "DEPENDENCY_ADDED")
                 => /\ ~Contains(Deps(tasks, T), D)
                    /\ Contains(Deps(tasks', T), D)
                    /\ WithoutDependency(tasks', T, D) = tasks
           /\ (/\ AddCalled(command, tasks) /\ outcome = "DEPENDENCY_ADDED"
               /\ RemoveCalled(command', tasks)
               /\ T = command.task_id /\ D = command.depends_on)
                 => /\ outcome' = "DEPENDENCY_REMOVED"
                    /\ tasks' = WithoutDependency(tasks, T, D)
                    /\ json_load(disk') = tasks']_vars

\* a remove after the add of the same dependency to a task that had another
\* dependency before: that one is left
C29_Witness ==
    /\ RemoveCalled(command, tasks) /\ outcome = "DEPENDENCY_REMOVED"
    /\ AddCalled(previous, tasks)
    /\ previous.task_id = command.task_id
    /\ previous.depends_on = command.depends_on
    /\ Len(Deps(tasks, command.task_id)) = 1
    /\ ~Contains(Deps(tasks, command.task_id), command.depends_on)
    /\ json_load(disk) = tasks

-----------------------------------------------------------------------------
\* the call has returned or raised
CallEnded == call # NoCall /\ call.main \in {"returned", "raised"}

\* what the call must end with: the generator's text, or an exception with
\* the message of the generator's
Expected(generator) ==
    IF generator.kind = "text" THEN <<"return", generator.value>>
    ELSE <<"raise", generator.value>>

HandOffSafe ==
    call # NoCall =>
        /\ call.puts <= 1
        /\ call.worker = "done" => call.puts = 1
        /\ call.main \in {"get", "check", "except", "returned", "raised"}
               => call.worker = "done"
        /\ call.main = "get" => Len(call.queue) = 1
        /\ call.main \in {"stop", "join", "get", "check", "except"}
               => main_can_step(call)
        /\ CallEnded =>
               /\ call.result = Expected(call.generator)
               /\ call.spinner = "stopped" /\ call.stops >= 1
               /\ call.queue = <<>>

(* C30: in every interleaving of the two threads of llm_call_with_progress *)
(* the worker puts one pair on result_queue, and has put exactly one when  *)
(* it ends; the main thread comes to result_queue.get() only after the     *)
(* worker has ended, with that pair on the queue, so that neither join nor *)
(* get makes it wait; and the call ends: it returns the generator's text   *)
(* when the generator gave one and raises an exception with the            *)
(* generator's message when it failed, the spinner stopped in both cases.  *)
C30_HandOff == []HandOffSafe /\ <>CallEnded

\* the call raised after the generator did, the spinner having drawn before
\* it was stopped, once after the loop and once in the except branch
C30_Witness ==
    /\ CallEnded /\ call.main = "raised" /\ call.generator.kind = "raises"
    /\ call.result = <<"raise", "quota exceeded">>
    /\ call.frames >= 2 /\ call.stops = 2 /\ call.spinner = "stopped"

====
